---- MODULE Spec2Model ----
(***************************************************************************)
(* FORGE: analysis-to-application pipeline.                                *)
(*                                                                         *)
(* A text is modelled as the sequence of its lines, i.e. as the value of   *)
(* s.split('\n'): the empty string is <<"">>, "x" is <<"x">>, "x\n" is     *)
(* <<"x", "">>.  join('\n') of an empty array is the empty string.         *)
(* A working-tree path that holds no file is Absent (the empty sequence,   *)
(* which is no text).                                                      *)
(***************************************************************************)
EXTENDS Integers, Sequences, FiniteSets, TLC

\* ------------------------------------------------------------------ bounds
\* longest patch set handed to one applyPatches call
MaxPatches == 2
\* longest patch set in the two-process specification
ConcMaxPatches == 1

\* ------------------------------------------------------------ basic values
Procs == {"p1", "p2"}
Files == {"a.txt", "b.txt"}
Absent == <<>>
EmptyText == <<"">>
FixActions == {"auto-apply", "manual-review", "escalate", "reject"}

Min(a, b) == IF a < b THEN a ELSE b
Max(a, b) == IF a > b THEN a ELSE b
Abs(a) == IF a < 0 THEN 0 - a ELSE a

\* Array.prototype.join('\n') followed by the reading of the result as a text
Join(lines) == IF lines = <<>> THEN EmptyText ELSE lines

\* string.length === 0
IsEmptyString(text) == text = EmptyText

\* string.endsWith('\n')
EndsWithNewline(text) == Len(text) >= 2 /\ text[Len(text)] = ""

\* Array.prototype.splice(start, deleteCount, ...items) on a copy
Splice(arr, start, deleteCount, items) ==
  LET len == Len(arr)
      from == IF start < 0 THEN Max(len + start, 0) ELSE Min(start, len)
      dc == Min(Max(deleteCount, 0), len - from)
  IN SubSeq(arr, 1, from) \o items \o SubSeq(arr, from + dc + 1, len)

\* crypto.createHash('sha256').update(content).digest('hex'): collision-free
\* on the texts of the model
Hash(content) == <<"sha256", content>>

\* ------------------------------------------------------------ patches
HunkLine(tag, text) == [tag |-> tag, text |-> text]

\* lines.filter(l => l.startsWith('+')).map(l => l.slice(1))
RECURSIVE Insertions(_)
Insertions(lines) ==
  IF lines = <<>> THEN <<>>
  ELSE (IF Head(lines).tag = "+" THEN <<Head(lines).text>> ELSE <<>>)
         \o Insertions(Tail(lines))

\* lines.filter(l => l.startsWith('-')).length
RECURSIVE Deletions(_)
Deletions(lines) ==
  IF lines = <<>> THEN 0
  ELSE (IF Head(lines).tag = "-" THEN 1 ELSE 0) + Deletions(Tail(lines))

ApplyHunk(lines, hunk) ==
  LET removed == Splice(lines, hunk.oldStart - 1, Deletions(hunk.lines), <<>>)
  IN Splice(removed, hunk.newStart - 1, 0, Insertions(hunk.lines))

\* [...hunks].sort((a, b) => b.newStart - a.newStart): stable, descending
RECURSIVE InsertHunk(_, _)
InsertHunk(sorted, h) ==
  IF sorted = <<>> THEN <<h>>
  ELSE IF Head(sorted).newStart >= h.newStart
       THEN <<Head(sorted)>> \o InsertHunk(Tail(sorted), h)
       ELSE <<h>> \o sorted

RECURSIVE SortHunks(_)
SortHunks(hunks) ==
  IF hunks = <<>> THEN <<>>
  ELSE InsertHunk(SortHunks(SubSeq(hunks, 1, Len(hunks) - 1)), hunks[Len(hunks)])

RECURSIVE ApplyHunks(_, _)
ApplyHunks(lines, hunks) ==
  IF hunks = <<>> THEN lines
  ELSE ApplyHunks(ApplyHunk(lines, Head(hunks)), Tail(hunks))

\* PatchGenerator.applyPatch(original, patch)
ApplyPatchText(original, patch) ==
  Join(ApplyHunks(original, SortHunks(patch.hunks)))

\* hunks.flatMap(h => h.lines.filter('+').map(slice(1))).join('\n')
RECURSIVE AddedLines(_)
AddedLines(hunks) ==
  IF hunks = <<>> THEN <<>>
  ELSE Insertions(Head(hunks).lines) \o AddedLines(Tail(hunks))

NewFileContent(patch) == Join(AddedLines(patch.hunks))

\* the shapes PatchGenerator.generatePatch gives a created, a deleted and a
\* modified one-line file
CreatePatch(f, text) ==
  [filename |-> f, isNewFile |-> TRUE, isDeletedFile |-> FALSE,
   hunks |-> <<[oldStart |-> 0, oldLines |-> 0, newStart |-> 1, newLines |-> 1,
                lines |-> <<HunkLine("+", text)>>]>>]

DeletePatch(f, text) ==
  [filename |-> f, isNewFile |-> FALSE, isDeletedFile |-> TRUE,
   hunks |-> <<[oldStart |-> 1, oldLines |-> 1, newStart |-> 0, newLines |-> 0,
                lines |-> <<HunkLine("-", text)>>]>>]

ModifyPatch(f, old, new) ==
  [filename |-> f, isNewFile |-> FALSE, isDeletedFile |-> FALSE,
   hunks |-> <<[oldStart |-> 1, oldLines |-> 1, newStart |-> 1, newLines |-> 1,
                lines |-> <<HunkLine("-", old), HunkLine("+", new)>>]>>]

\* a hunk that only adds a line in front of the first one
InsertPatch(f, new) ==
  [filename |-> f, isNewFile |-> FALSE, isDeletedFile |-> FALSE,
   hunks |-> <<[oldStart |-> 1, oldLines |-> 0, newStart |-> 1, newLines |-> 1,
                lines |-> <<HunkLine("+", new)>>]>>]

PatchPool ==
  UNION {{CreatePatch(f, "y"), DeletePatch(f, "x"), ModifyPatch(f, "x", "y"),
          InsertPatch(f, "y")} : f \in Files}

\* DiffEngine.reversePatch
ReverseLine(line) ==
  IF line.tag = "+" THEN HunkLine("-", line.text)
  ELSE IF line.tag = "-" THEN HunkLine("+", line.text)
  ELSE line

ReverseHunk(hunk) ==
  [oldStart |-> hunk.newStart, oldLines |-> hunk.newLines,
   newStart |-> hunk.oldStart, newLines |-> hunk.oldLines,
   lines |-> [i \in DOMAIN hunk.lines |-> ReverseLine(hunk.lines[i])]]

ReversePatch(patch) ==
  [filename |-> patch.filename,
   isNewFile |-> patch.isDeletedFile, isDeletedFile |-> patch.isNewFile,
   hunks |-> [i \in DOMAIN patch.hunks |-> ReverseHunk(patch.hunks[i])]]

RECURSIVE SeqsUpTo(_, _)
SeqsUpTo(S, n) ==
  IF n = 0 THEN {<<>>}
  ELSE LET shorter == SeqsUpTo(S, n - 1)
       IN shorter \cup {Append(s, x) : s \in {t \in shorter : Len(t) = n - 1}, x \in S}

PatchSets(n) == SeqsUpTo(PatchPool, n)

InitialTrees == [Files -> {Absent, <<"x">>}]

\* ------------------------------------------------------------ validator
\* FixValidator.validateGenericText: never an error; warnings for an empty
\* file and for a missing final newline (no text of the model holds '\r')
ValidateGenericText(filename, content) ==
  [filename |-> filename,
   errors |-> <<>>,
   warnings |-> (IF IsEmptyString(content) THEN <<"File is empty">> ELSE <<>>)
                \o (IF ~EndsWithNewline(content)
                    THEN <<"File does not end with newline">> ELSE <<>>)]

\* FixValidator.validateFixes(baseDir, modifiedFiles): one validation per
\* entry of the map; every file of Files has the generic-text extension
ValidateFixes(modifiedFiles) ==
  {ValidateGenericText(f, modifiedFiles[f]) : f \in DOMAIN modifiedFiles}

HasErrors(validations) == \E v \in validations : Len(v.errors) > 0

\* ------------------------------------------------------------ dry run
LargeChangeLines == 100

Step(action, file, status, message) ==
  [action |-> action, file |-> file, status |-> status, message |-> message]

\* DryRunSimulator.simulatePatches, step 1, for one patch
PatchStep(tree, patch) ==
  LET f == patch.filename IN
  IF patch.isNewFile THEN Step("create", f, "success", "Will create new file")
  ELSE IF patch.isDeletedFile
  THEN IF tree[f] = Absent
       THEN Step("delete", f, "error", "Target file does not exist")
       ELSE Step("delete", f, "warning", "Will permanently delete file")
  ELSE IF tree[f] = Absent
       THEN Step("modify", f, "error", "Target file does not exist")
       ELSE LET modified == ApplyPatchText(tree[f], patch)
                linesChanged == Abs(Len(modified) - Len(tree[f]))
            IN IF linesChanged > LargeChangeLines
               THEN Step("modify", f, "warning", "Large change")
               ELSE Step("modify", f, "success", "Will modify file")

\* step 2: the post-images handed to the validator (a Map: the last patch of
\* a file wins)
RECURSIVE ModifiedFiles(_, _, _)
ModifiedFiles(tree, patches, acc) ==
  IF patches = <<>> THEN acc
  ELSE LET patch == Head(patches)
           f == patch.filename
           put(content) == [g \in DOMAIN acc \cup {f} |->
                              IF g = f THEN content ELSE acc[g]]
       IN ModifiedFiles(tree, Tail(patches),
            IF patch.isNewFile THEN put(NewFileContent(patch))
            ELSE IF ~patch.isDeletedFile /\ tree[f] # Absent
                 THEN put(ApplyPatchText(tree[f], patch))
                 ELSE acc)

NoFiles == [g \in {} |-> EmptyText]

\* DryRunSimulator.checkForConflicts
CheckForConflicts(patches) ==
  LET idxs == DOMAIN patches
      multi == {f \in {patches[i].filename : i \in idxs} :
                  Cardinality({i \in idxs : patches[i].filename = f}) > 1}
      delmod == {i \in idxs :
                   /\ patches[i].isDeletedFile
                   /\ \E j \in idxs : /\ j # i
                                      /\ patches[j].filename = patches[i].filename
                                      /\ ~patches[j].isDeletedFile}
  IN Cardinality(multi) + Cardinality(delmod)

SimulatePatches(tree, patches, options) ==
  LET fileSteps == [i \in DOMAIN patches |-> PatchStep(tree, patches[i])]
      validations == ValidateFixes(ModifiedFiles(tree, patches, NoFiles))
      syntaxStep ==
        IF options.validateSyntax
        THEN <<Step("validate-syntax", "all",
                    IF HasErrors(validations) THEN "error" ELSE "success",
                    IF HasErrors(validations) THEN "Syntax validation failed"
                    ELSE "Syntax validation passed")>>
        ELSE <<>>
      conflicts == CheckForConflicts(patches)
      conflictStep ==
        IF options.checkConflicts
        THEN <<Step("check-conflicts", "all",
                    IF conflicts > 0 THEN "error" ELSE "success",
                    IF conflicts > 0 THEN "Found potential conflict(s)"
                    ELSE "No conflicts detected")>>
        ELSE <<>>
      perfStep ==
        IF options.estimatePerformance
        THEN <<Step("estimate-performance", "all", "success",
                    "Performance impact: minimal")>>
        ELSE <<>>
      steps == fileSteps \o syntaxStep \o conflictStep \o perfStep
  IN [success |-> \A i \in DOMAIN steps : steps[i].status # "error",
      steps |-> steps]

\* dryRunResult.steps.filter(s => s.status === 'error').map(s => s.message)
RECURSIVE ErrorMessages(_)
ErrorMessages(steps) ==
  IF steps = <<>> THEN <<>>
  ELSE (IF Head(steps).status = "error"
        THEN <<<<Head(steps).message, Head(steps).file>>>> ELSE <<>>)
       \o ErrorMessages(Tail(steps))

\* ------------------------------------------------------------ diff engine
\* one turn of the loop of DiffEngine.applyPatches(baseDir, patches, dryRun)
DiffEngineApplyOne(st, patch, dryRun) ==
  LET f == patch.filename
      write(tree) == IF dryRun THEN st.tree ELSE tree
  IN IF patch.isNewFile
     THEN [tree |-> write([st.tree EXCEPT ![f] = NewFileContent(patch)]),
           appliedPatches |-> Append(st.appliedPatches, f), errors |-> st.errors]
     ELSE IF patch.isDeletedFile
     THEN [tree |-> write([st.tree EXCEPT ![f] = Absent]),
           appliedPatches |-> Append(st.appliedPatches, f), errors |-> st.errors]
     ELSE IF st.tree[f] = Absent
     THEN [tree |-> st.tree, appliedPatches |-> st.appliedPatches,
           errors |-> Append(st.errors, <<"File not found", f>>)]
     ELSE [tree |-> write([st.tree EXCEPT ![f] = ApplyPatchText(st.tree[f], patch)]),
           appliedPatches |-> Append(st.appliedPatches, f), errors |-> st.errors]

RECURSIVE DiffEngineApplyLoop(_, _, _)
DiffEngineApplyLoop(st, patches, dryRun) ==
  IF patches = <<>> THEN st
  ELSE DiffEngineApplyLoop(DiffEngineApplyOne(st, Head(patches), dryRun),
                           Tail(patches), dryRun)

DiffEngineApplyPatches(tree, patches, dryRun) ==
  LET st == DiffEngineApplyLoop(
              [tree |-> tree, appliedPatches |-> <<>>, errors |-> <<>>],
              patches, dryRun)
  IN [success |-> Len(st.errors) = 0, appliedPatches |-> st.appliedPatches,
      errors |-> st.errors, tree |-> st.tree]

\* ------------------------------------------------------------ confidence gate
\* scores and thresholds are in hundredths: 0.9 is 90
DefaultAutoApplyThreshold == 90
DefaultManualReviewThreshold == 60
DefaultEscalateThreshold == 30

\* ConfidenceGate.constructor: the defaults, overridden by the given flags
GateConfig(allowCritical, securityReview, performanceReview) ==
  [autoApplyThreshold |-> DefaultAutoApplyThreshold,
   manualReviewThreshold |-> DefaultManualReviewThreshold,
   escalateThreshold |-> DefaultEscalateThreshold,
   allowAutoApplyOnCritical |-> allowCritical,
   requiresSecurityReview |-> securityReview,
   requiresPerformanceReview |-> performanceReview]

DefaultGateConfig == GateConfig(FALSE, TRUE, TRUE)

\* ConfidenceGate.constructor with thresholds in the given configuration:
\* `...config` takes them as they are, in any order
WithThresholds(config, autoApply, manualReview, escalate) ==
  [config EXCEPT !.autoApplyThreshold = autoApply,
                 !.manualReviewThreshold = manualReview,
                 !.escalateThreshold = escalate]

\* the words of the two lexicons that occur in a path (a regular expression
\* test is a search for the word in the path)
SecurityPatterns ==
  {"auth", "secret", "password", "token", "credential", "permission", "access",
   "security"}

PerfPatterns ==
  {"cache", "database", "query", "optimization", "performance", "index.ts$"}

GateFiles == {"README.md", "src/auth/login.ts", "src/cache.ts", "docs/guide.md"}

PathWords(filename) ==
  CASE filename = "src/auth/login.ts" -> {"auth"}
    [] filename = "src/cache.ts" -> {"cache"}
    [] OTHER -> {}

\* ConfidenceGate.touchesSecurityCode
TouchesSecurityCode(patches) ==
  \E i \in DOMAIN patches :
    \E pattern \in SecurityPatterns : pattern \in PathWords(patches[i].filename)

\* ConfidenceGate.touchesPerformanceCriticalCode
TouchesPerformanceCriticalCode(patches) ==
  \E i \in DOMAIN patches :
    \E pattern \in PerfPatterns : pattern \in PathWords(patches[i].filename)

Decision(action, confidence, reasoning) ==
  [action |-> action, confidence |-> confidence, reasoning |-> reasoning]

\* tiers that reject a critical failure with a high score
ActionByConfidenceCriticalRejects(config, confidence, isCriticalFailure) ==
  IF confidence >= config.autoApplyThreshold
  THEN IF isCriticalFailure /\ ~config.allowAutoApplyOnCritical
       THEN Decision("reject", confidence, "critical failure")
       ELSE Decision("auto-apply", confidence, "high confidence")
  ELSE IF confidence >= config.manualReviewThreshold
  THEN Decision("manual-review", confidence, "moderate confidence")
  ELSE IF confidence >= config.escalateThreshold
  THEN Decision("escalate", confidence, "low confidence")
  ELSE Decision("reject", confidence, "very low confidence")

\* evaluateFix from "Determine action based on confidence" on, lines 100-174
ActionByConfidence(config, confidence, isCriticalFailure) ==
  IF confidence >= config.autoApplyThreshold
  THEN IF isCriticalFailure /\ ~config.allowAutoApplyOnCritical
       THEN Decision("manual-review", confidence, "critical failure")
       ELSE Decision("auto-apply", confidence, "high confidence")
  ELSE IF confidence >= config.manualReviewThreshold
  THEN Decision("manual-review", confidence, "moderate confidence")
  ELSE IF confidence >= config.escalateThreshold
  THEN Decision("escalate", confidence, "low confidence")
  ELSE Decision("reject", confidence, "very low confidence")

\* a gate whose threshold comparisons are strict
EvaluateFixStrict(config, confidence, validations, patches, isCriticalFailure) ==
  IF config.requiresSecurityReview /\ TouchesSecurityCode(patches)
  THEN Decision("manual-review", confidence, "security-sensitive code")
  ELSE IF config.requiresPerformanceReview /\ TouchesPerformanceCriticalCode(patches)
  THEN Decision("manual-review", confidence, "performance-critical code")
  ELSE IF HasErrors(validations)
  THEN Decision("reject", confidence, "validation errors")
  ELSE IF confidence > config.autoApplyThreshold
  THEN IF isCriticalFailure /\ ~config.allowAutoApplyOnCritical
       THEN Decision("manual-review", confidence, "critical failure")
       ELSE Decision("auto-apply", confidence, "high confidence")
  ELSE IF confidence > config.manualReviewThreshold
  THEN Decision("manual-review", confidence, "moderate confidence")
  ELSE IF confidence > config.escalateThreshold
  THEN Decision("escalate", confidence, "low confidence")
  ELSE Decision("reject", confidence, "very low confidence")

\* ConfidenceGate.evaluateFix; risks and recommendations are not modelled
EvaluateFix(config, confidence, validations, patches, isCriticalFailure) ==
  IF config.requiresSecurityReview /\ TouchesSecurityCode(patches)
  THEN Decision("manual-review", confidence, "security-sensitive code")
  ELSE IF config.requiresPerformanceReview /\ TouchesPerformanceCriticalCode(patches)
  THEN Decision("manual-review", confidence, "performance-critical code")
  ELSE IF HasErrors(validations)
  THEN Decision("reject", confidence, "validation errors")
  ELSE ActionByConfidence(config, confidence, isCriticalFailure)

\* ------------------------------------------------------------ state
VARIABLES
  fs,                  \* the working tree under the root: Files -> text or Absent
  recordFiles,         \* <recordDir>/<id>.json: application id -> ApplicationRecord
  backupBlobs,         \* <recordDir>/<id>/<file>: <<id, file>> -> text
  auditEntries,        \* the audit journal, in the order written
  pc,                  \* per applicator process: "unbuilt", "new", "apply", "done"
  call,                \* per process: the locals of its applyPatches call
  result,              \* per process: what its last call returned
  applicationRecords,  \* per process: FixApplicator.applicationRecords
  run,                 \* the last run of a component other than the applicator
  gateIn,              \* the arguments of a ConfidenceGate.evaluateFix call
  gateOut,             \* the decision it returned
  retry,               \* one call of RetryHandler.retry / retryUntilValid
  pipe,                \* one run of AIProviderV2.runMultiAgentAnalysis
  stream,              \* one run of MultiAgentOrchestrator.runStreamingPipeline
  diff,                \* one patch of PatchGenerator and its applications
  log,                 \* one log on its way through the log parser
  audit                \* the AuditLogger of one process and its journal file

applicatorVars == <<fs, recordFiles, backupBlobs, auditEntries, pc, call, result,
                    applicationRecords>>
gateVars == <<gateIn, gateOut>>

vars == <<fs, recordFiles, backupBlobs, auditEntries, pc, call, result,
          applicationRecords, run, gateIn, gateOut, retry, pipe, stream, diff,
          log, audit>>

NoHash == <<>>
NoError == <<>>
NoMap == [x \in {} |-> <<>>]

\* FixApplicator.generateId: `patch-<time>-<random>`, one per call; a process
\* makes one call, so its name tells the identifiers apart
AppId(p) == <<"patch", p>>
AppIds == {AppId(p) : p \in Procs}

\* treeBefore is the working tree as it was when the process entered
\* applyPatches; the code keeps no such value, the properties read it
NoCall ==
  [applicationId |-> <<"patch", "">>, patches |-> <<>>, decision |-> [action |-> "reject"],
   autoApply |-> FALSE, backups |-> NoMap, appliedPatches |-> <<>>,
   applied |-> <<>>, errors |-> <<>>, idx |-> 0,
   treeBefore |-> [f \in Files |-> Absent]]

NoResult == [op |-> "none"]

\* FixApplicator.backupFiles: in-memory snapshots, keyed by filename
RECURSIVE BackupFiles(_, _, _)
BackupFiles(tree, patches, acc) ==
  IF patches = <<>> THEN acc
  ELSE LET patch == Head(patches)
           f == patch.filename
       IN BackupFiles(tree, Tail(patches),
            IF ~patch.isNewFile /\ tree[f] # Absent
            THEN [g \in DOMAIN acc \cup {f} |-> IF g = f THEN tree[f] ELSE acc[g]]
            ELSE acc)

\* FixApplicator.restoreFromBackup
RestoreFromBackup(tree, backups) ==
  [f \in Files |-> IF f \in DOMAIN backups THEN backups[f] ELSE tree[f]]

Applied(beforeHash, afterHash, tree) ==
  [success |-> TRUE, beforeHash |-> beforeHash, afterHash |-> afterHash,
   error |-> NoError, tree |-> tree]

NotApplied(message, f, tree) ==
  [success |-> FALSE, beforeHash |-> NoHash, afterHash |-> NoHash,
   error |-> <<message, f>>, tree |-> tree]

\* FixApplicator.applyPatch; tree is the working tree it reads and writes
ApplyPatch(tree, patch) ==
  LET f == patch.filename IN
  IF patch.isNewFile
  THEN LET content == NewFileContent(patch)
       IN Applied(Hash(EmptyText), Hash(content), [tree EXCEPT ![f] = content])
  ELSE IF patch.isDeletedFile
  THEN IF tree[f] = Absent
       THEN NotApplied("File to delete not found", f, tree)
       ELSE Applied(Hash(tree[f]), Hash(EmptyText), [tree EXCEPT ![f] = Absent])
  ELSE IF tree[f] = Absent
       THEN NotApplied("File not found", f, tree)
       ELSE LET afterContent == ApplyPatchText(tree[f], patch)
            IN Applied(Hash(tree[f]), Hash(afterContent),
                       [tree EXCEPT ![f] = afterContent])

\* a gate check that lets every call through
MayApplyAlways(decision, autoApply) == TRUE

\* step 2 of applyPatches: may this call write?
MayApply(decision, autoApply) == decision.action = "auto-apply" \/ autoApply

\* a record that is always marked applied
RecordStatusApplied(errors) == "applied"

\* status of the record written in step 5
RecordStatus(errors) == IF Len(errors) = 0 THEN "applied" ELSE "partial"

ApplyResult(success, id, applied, errors) ==
  [op |-> "applyPatches", success |-> success, applicationId |-> id,
   applied |-> applied, errors |-> errors]

\* FixApplicator.loadRecords: every record file of the record directory is
\* read into the map of the new object, keyed by the id it holds
LoadRecords(files) == [id \in DOMAIN files |-> files[id]]

\* new FixApplicator(baseDir): ensureRecordDir, then loadRecords.  A process
\* is "unbuilt" until it has constructed its FixApplicator.
Construct(p) ==
  /\ pc[p] = "unbuilt"
  /\ pc' = [pc EXCEPT ![p] = "new"]
  /\ applicationRecords' = [applicationRecords EXCEPT ![p] = LoadRecords(recordFiles)]
  /\ UNCHANGED <<fs, recordFiles, backupBlobs, auditEntries, call, result>>

DryRunOptions ==
  [validateSyntax |-> TRUE, checkConflicts |-> TRUE, estimatePerformance |-> FALSE]

\* applyPatches, lines 144-188: identifier, pre-flight dry run, gate check,
\* snapshots.  dryRunFirst = TRUE stands for "not false" (the default).
\* A process stands for one run of the tool: it is "new" from the constructor
\* until it calls applyPatches, "apply" inside the loop and "done" once the
\* call returned.
Call(p, patches, decision, autoApply, dryRunFirst) ==
  /\ pc[p] = "new"
  /\ LET id == AppId(p)
         dryRunResult == SimulatePatches(fs, patches, DryRunOptions)
     IN IF dryRunFirst /\ ~dryRunResult.success
        THEN /\ result' = [result EXCEPT ![p] =
                  ApplyResult(FALSE, id, <<>>, ErrorMessages(dryRunResult.steps))]
             /\ pc' = [pc EXCEPT ![p] = "done"]
             /\ call' = [call EXCEPT ![p].treeBefore = fs]
        ELSE IF ~MayApply(decision, autoApply)
        THEN /\ result' = [result EXCEPT ![p] =
                  ApplyResult(FALSE, id, <<>>, <<<<"not allowed", decision.action>>>>)]
             /\ pc' = [pc EXCEPT ![p] = "done"]
             /\ call' = [call EXCEPT ![p].treeBefore = fs]
        ELSE /\ pc' = [pc EXCEPT ![p] = "apply"]
             /\ call' = [call EXCEPT ![p] =
                  [applicationId |-> id, patches |-> patches, decision |-> decision,
                   autoApply |-> autoApply,
                   backups |-> BackupFiles(fs, patches, NoMap),
                   appliedPatches |-> <<>>, applied |-> <<>>, errors |-> <<>>,
                   idx |-> 1, treeBefore |-> fs]]
             /\ UNCHANGED result
  /\ UNCHANGED <<fs, recordFiles, backupBlobs, auditEntries, applicationRecords>>

\* one turn of the loop of lines 196-233.  applyPatch catches every error of
\* its body and returns it, so the catch of line 212 is never entered.
ApplyNext(p) ==
  /\ pc[p] = "apply"
  /\ call[p].idx <= Len(call[p].patches)
  /\ LET c == call[p]
         patch == c.patches[c.idx]
         r == ApplyPatch(fs, patch)
     IN /\ fs' = r.tree
        /\ call' = [call EXCEPT ![p] =
             IF r.success
             THEN [c EXCEPT !.appliedPatches = Append(@,
                                [filename |-> patch.filename,
                                 beforeHash |-> r.beforeHash,
                                 afterHash |-> r.afterHash,
                                 patchContent |-> patch]),
                            !.applied = Append(@, patch.filename),
                            !.idx = @ + 1]
             ELSE [c EXCEPT !.errors = Append(@, r.error), !.idx = @ + 1]]
  /\ UNCHANGED <<recordFiles, backupBlobs, auditEntries, pc, result,
                 applicationRecords>>

\* lines 235-253: build the record, keep it, save it, return
Record(p) ==
  /\ pc[p] = "apply"
  /\ call[p].idx > Len(call[p].patches)
  /\ LET c == call[p]
         record == [id |-> c.applicationId, patches |-> c.appliedPatches,
                    decision |-> c.decision, status |-> RecordStatus(c.errors),
                    error |-> IF Len(c.errors) > 0 THEN c.errors[1] ELSE NoError]
         put(m) == [i \in DOMAIN m \cup {record.id} |->
                      IF i = record.id THEN record ELSE m[i]]
     IN /\ applicationRecords' = [applicationRecords EXCEPT ![p] = put(@)]
        /\ recordFiles' = put(recordFiles)
        /\ result' = [result EXCEPT ![p] =
             ApplyResult(Len(c.errors) = 0, c.applicationId, c.applied, c.errors)]
  /\ pc' = [pc EXCEPT ![p] = "done"]
  /\ call' = [call EXCEPT ![p] = [NoCall EXCEPT !.treeBefore = call[p].treeBefore]]
  /\ UNCHANGED <<fs, backupBlobs, auditEntries>>

\* FixApplicator.getRecordFile, existsSync and readFileSync on it
RecordFile(id, filename) == <<id, filename>>

\* a rollback that undoes a patch by applying its reverse to the current content
RollbackOneByReverse(st, blobs, id, appliedPatch) ==
  LET f == appliedPatch.filename
      reverse == ReversePatch(appliedPatch.patchContent)
  IN IF st.tree[f] = Absent
     THEN [tree |-> IF reverse.isNewFile
                    THEN [st.tree EXCEPT ![f] = NewFileContent(reverse)]
                    ELSE st.tree,
           restored |-> Append(st.restored, f),
           errors |-> st.errors]
     ELSE [tree |-> IF reverse.isDeletedFile
                    THEN [st.tree EXCEPT ![f] = Absent]
                    ELSE [st.tree EXCEPT ![f] = ApplyPatchText(st.tree[f], reverse)],
           restored |-> Append(st.restored, f),
           errors |-> st.errors]

\* one turn of the loop of rollback, lines 386-422
RollbackOne(st, blobs, id, appliedPatch) ==
  LET f == appliedPatch.filename
      recordFile == RecordFile(id, f)
  IN IF recordFile \in DOMAIN blobs
     THEN [tree |-> IF appliedPatch.beforeHash = Hash(EmptyText)
                    THEN [st.tree EXCEPT ![f] = Absent]
                    ELSE [st.tree EXCEPT ![f] = blobs[recordFile]],
           restored |-> Append(st.restored, f),
           errors |-> st.errors]
     ELSE [tree |-> st.tree,
           restored |-> st.restored,
           errors |-> Append(st.errors, <<"Backup not found", f>>)]

RECURSIVE RollbackLoop(_, _, _, _, _)
RollbackLoop(st, blobs, id, patches, i) ==
  IF i < 1 THEN st
  ELSE RollbackLoop(RollbackOne(st, blobs, id, patches[i]), blobs, id, patches, i - 1)

RollbackStatus(errors) == IF Len(errors) = 0 THEN "rolled-back" ELSE "partial"

RollbackResult(id, success, restored, errors) ==
  [op |-> "rollback", success |-> success, applicationId |-> id,
   restored |-> restored, errors |-> errors]

\* FixApplicator.rollback(applicationId)
Rollback(p, id) ==
  /\ pc[p] \in {"new", "done"}
  /\ IF id \notin DOMAIN applicationRecords[p]
     THEN /\ result' = [result EXCEPT ![p] =
               RollbackResult(id, FALSE, <<>>, <<<<"Application record not found", "">>>>)]
          /\ UNCHANGED <<fs, recordFiles, applicationRecords>>
     ELSE LET record == applicationRecords[p][id]
              st == RollbackLoop([tree |-> fs, restored |-> <<>>, errors |-> <<>>],
                                 backupBlobs, id, record.patches, Len(record.patches))
              updated == [record EXCEPT !.status = RollbackStatus(st.errors)]
          IN /\ fs' = st.tree
             /\ applicationRecords' = [applicationRecords EXCEPT ![p][id] = updated]
             /\ recordFiles' = [i \in DOMAIN recordFiles \cup {id} |->
                                  IF i = id THEN updated ELSE recordFiles[i]]
             /\ result' = [result EXCEPT ![p] =
                  RollbackResult(id, Len(st.errors) = 0, st.restored, st.errors)]
  /\ UNCHANGED <<backupBlobs, auditEntries, pc, call>>

\* ------------------------------------------------------------ retry handler
DefaultMaxRetries == 3
DefaultInitialDelayMs == 1000
DefaultMaxDelayMs == 10000
DefaultBackoffMultiplier == 2
DefaultTimeoutMs == 30000
PipelineMaxRetries == 2
PipelineTimeoutMs == 15000

\* RetryHandler.DEFAULT_CONFIG overridden by the given fields
RetryConfig(maxRetries, timeoutMs) ==
  [maxRetries |-> maxRetries, initialDelayMs |-> DefaultInitialDelayMs,
   maxDelayMs |-> DefaultMaxDelayMs, backoffMultiplier |-> DefaultBackoffMultiplier,
   timeoutMs |-> timeoutMs]

DefaultRetryConfig == RetryConfig(DefaultMaxRetries, DefaultTimeoutMs)

\* the configuration runAgentWithRetry passes
PipelineRetryConfig == RetryConfig(PipelineMaxRetries, PipelineTimeoutMs)

RECURSIVE Pow(_, _)
Pow(b, e) == IF e = 0 THEN 1 ELSE b * Pow(b, e - 1)

\* the wait after a failed attempt
DelayMs(config, attempt) ==
  Min(config.initialDelayMs * Pow(config.backoffMultiplier, attempt - 1),
      config.maxDelayMs)

\* what one attempt meets: a response that parses and validates, one that
\* parses and violates the schema, one that is no JSON, an operation that
\* rejects, an operation that loses the race with the timeout
AttemptOutcomes == {"valid", "schema", "json", "transport", "timeout"}

\* RetryHandler.retry does not look into the value of the operation
PlainOutcomes == {"valid", "transport", "timeout"}

\* the violations SchemaValidator.validate reports for the response
Violations == <<"confidence: invalid_type - Required">>

\* the message of the error an attempt ends with
ErrorOf(outcome, config) ==
  CASE outcome = "schema" -> <<"Schema validation failed for", "RetryHandler">>
    [] outcome = "json" -> <<"Response is not valid JSON", "">>
    [] outcome = "transport" -> <<"Backend error", "">>
    [] outcome = "timeout" -> <<"Operation timeout after", config.timeoutMs>>
    [] OTHER -> <<"", "">>

NoDirective == <<>>

\* RetryHandler.generateCorrectionPrompt(violations)
GenerateCorrectionPrompt(violations) ==
  <<"Your previous response had schema validation errors:">> \o violations
  \o <<"Respond ONLY with valid JSON, no markdown or extra text.">>

NoRetryResult == [success |-> FALSE, data |-> "none", error |-> <<"", "">>,
                  retriesUsed |-> 0]

\* the locals of a call before its first attempt; hasCorrection tells whether
\* a correctionPrompt callback is given.  pending holds the attempts whose
\* operation() promise has not settled: Promise.race leaves the operation of
\* a lost race running
StartRetry(mode, config, hasCorrection) ==
  [mode |-> mode, config |-> config, hasCorrection |-> hasCorrection,
   attempt |-> 1, lastError |-> <<"", "">>, lastViolations |-> <<>>,
   outcomes |-> <<>>, calls |-> <<>>, waits |-> <<>>, corrections |-> <<>>,
   pending |-> {}, status |-> "running", result |-> NoRetryResult]

NoRetry ==
  [mode |-> "none", config |-> DefaultRetryConfig, hasCorrection |-> FALSE,
   attempt |-> 0, lastError |-> <<"", "">>, lastViolations |-> <<>>,
   outcomes |-> <<>>, calls |-> <<>>, waits |-> <<>>, corrections |-> <<>>,
   pending |-> {}, status |-> "none", result |-> NoRetryResult]

\* the top of a loop turn, lines 44-49 and 96-101: operation() is called and
\* the loop awaits its race with the timer.  running is what the call finds
\* still outstanding
CallOperation(r) ==
  [r EXCEPT !.calls = Append(@, [attempt |-> r.attempt, directive |-> NoDirective,
                                 running |-> r.pending]),
            !.pending = @ \cup {r.attempt},
            !.status = "awaiting"]

\* the race of the awaited attempt is over: the rest of the loop turn up to
\* the wait of lines 69, 140 and 152, or up to a return.  The timer of a
\* lost race settles nothing of the operation, which stays pending
RaceSettled(r, outcome) ==
  LET a == r.attempt
      ended == [r EXCEPT !.outcomes = Append(@, outcome),
                         !.pending = IF outcome = "timeout" THEN @ ELSE @ \ {a}]
      more == a <= r.config.maxRetries
      err == ErrorOf(outcome, r.config)
      failed ==
        [ended EXCEPT
           !.lastError = err,
           !.lastViolations = IF outcome = "schema" THEN Violations ELSE @,
           !.waits = IF more THEN Append(@, DelayMs(r.config, a)) ELSE @,
           !.corrections =
              IF more /\ outcome = "schema" /\ r.hasCorrection
              THEN Append(@, GenerateCorrectionPrompt(Violations)) ELSE @]
  IN IF outcome = "valid"
     THEN [ended EXCEPT !.status = "returned",
                        !.result = [success |-> TRUE, data |-> "data",
                                    error |-> <<"", "">>,
                                    retriesUsed |-> a - 1]]
     ELSE IF more THEN [failed EXCEPT !.status = "waiting"]
     ELSE [failed EXCEPT
             !.attempt = a + 1,
             !.status = "returned",
             !.result =
                [success |-> FALSE, data |-> "none",
                 error |-> IF r.mode = "retry"
                           THEN <<"Failed after", r.config.maxRetries + 1>> \o err
                           ELSE err,
                 retriesUsed |-> r.config.maxRetries]]

\* the wait is over: attempt++ and the next turn of the loop
DelayElapsed(r) == CallOperation([r EXCEPT !.attempt = @ + 1])

\* the operation of a timed-out attempt settles; nothing awaits its promise
\* any more, so its value or error goes nowhere
LateSettled(r, a) == [r EXCEPT !.pending = @ \ {a}]

\* ------------------------------------------------------------ pipeline
\* longest script of backend responses of a run
MaxPlan == 4

\* the agents of runMultiAgentAnalysis, in the order of its statements
AgentOrder == <<"LogAnalyst", "WorkflowExpert", "CodeReviewer", "FixGenerator">>

\* the names src/prompts/agents/index.ts exports: the four system prompts,
\* and no namespace of a prompt file
PromptsExports ==
  {"LOG_ANALYST_SYSTEM_PROMPT", "WORKFLOW_EXPERT_SYSTEM_PROMPT",
   "CODE_REVIEWER_SYSTEM_PROMPT", "FIX_GENERATOR_SYSTEM_PROMPT"}

\* prompts.<name> of `import * as prompts`
PromptsMember(name) == IF name \in PromptsExports THEN name ELSE "undefined"

\* reading a property of undefined
TypeErrorReading(property) ==
  <<"TypeError", "Cannot read properties of undefined", property>>

NoPipeResult == [kind |-> "none", outputs |-> <<>>, error |-> <<>>]

\* an AIProviderV2 as its constructor leaves it, and the backend it will talk
\* to: plan[i] is how the i-th backend call of a run would end, "valid" past
\* the end of the plan.  announced holds the "Agent i/4" lines logged, invoked
\* the agents runAgentWithRetry was entered for, calls the backend calls made,
\* outputs the values assigned, retriesLog the "Success (k retries)" lines
NewPipe(provider, enableRetry, plan) ==
  [status |-> "ready", provider |-> provider, enableRetry |-> enableRetry,
   plan |-> plan, announced |-> <<>>, invoked |-> <<>>, calls |-> <<>>,
   outputs |-> <<>>, retriesLog |-> <<>>, result |-> NoPipeResult]

NoPipe == [NewPipe("Mock", TRUE, <<>>) EXCEPT !.status = "none"]

\* a run that takes up the Fix Generator first
RunMultiAgentAnalysisFixGeneratorFirst(p) ==
  [p EXCEPT !.status = "failed",
            !.announced = <<AgentOrder[4]>>,
            !.result = [kind |-> "error", outputs |-> <<>>,
                        error |-> TypeErrorReading("FIX_GENERATOR_SYSTEM_PROMPT")]]

\* runMultiAgentAnalysis, lines 50-68: the log is optimised, "Agent 1/4: Log
\* Analyst" is logged, and the arguments of the first runAgentWithRetry are
\* evaluated.  prompts.logAnalystPrompt is undefined, the read of its
\* LOG_ANALYST_SYSTEM_PROMPT throws, and the promise of the run rejects
\* before runAgentWithRetry is entered
RunMultiAgentAnalysis(p) ==
  IF PromptsMember("logAnalystPrompt") = "undefined"
  THEN [p EXCEPT !.status = "failed",
                 !.announced = <<AgentOrder[1]>>,
                 !.result = [kind |-> "error", outputs |-> <<>>,
                             error |-> TypeErrorReading("LOG_ANALYST_SYSTEM_PROMPT")]]
  ELSE [p EXCEPT !.status = "running",
                 !.announced = <<AgentOrder[1]>>,
                 !.invoked = <<AgentOrder[1]>>]

\* ------------------------------------------------------------ streaming
\* longest backend stream of a run
MaxTokens == 2
\* most next() requests a consumer has outstanding
MaxPending == 2

\* a delta of the backend stream: the marker its content starts with ("none"
\* when it includes no marker) and the rest of the content
Tok(marker, text) == [marker |-> marker, text |-> text]

AgentMarkers ==
  [SECURITY |-> "Security", PERFORMANCE |-> "Performance", WORKFLOW |-> "Workflow",
   TEST |-> "Test", SUMMARY |-> "Summary"]

TokenPool ==
  {Tok("WORKFLOW", "w"), Tok("SUMMARY", ""), Tok("none", "t"), Tok("none", "12"),
   Tok("none", ""), Tok("FIX_FILE", ""), Tok("FIX_LINE", ""),
   Tok("FIX_CONTENT", ""), Tok("FIX_END", "")}

\* the text of the agent markers in a delta
MarkerTexts ==
  [SECURITY |-> "[SECURITY]", PERFORMANCE |-> "[PERFORMANCE]",
   WORKFLOW |-> "[WORKFLOW]", TEST |-> "[TEST]", SUMMARY |-> "[SUMMARY]"]

\* the content of a delta as the pieces of its text, the marker included
ContentOf(tok) ==
  (IF tok.marker \in DOMAIN MarkerTexts THEN <<MarkerTexts[tok.marker]>> ELSE <<>>)
    \o (IF tok.text # "" THEN <<tok.text>> ELSE <<>>)

\* content.replace(/\[(SECURITY|PERFORMANCE|WORKFLOW|TEST|SUMMARY)\]/g, '')
WithoutMarkers(tok) == tok.text

\* parseInt(content.trim()) of a delta; -1 stands for NaN
ParseInt(tok) == IF tok.marker = "none" /\ tok.text = "12" THEN 12 ELSE -1

\* one turn of the loop of analyzeWithOpenAIStream, lines 176-207; st holds
\* the locals and the chunks yielded so far
OpenAIStreamStep(st, tok) ==
  IF tok.marker = "none" /\ tok.text = "" THEN st
  ELSE IF tok.marker = "FIX_FILE"
  THEN [st EXCEPT !.inFixFile = TRUE, !.inFixLine = FALSE, !.inFixContent = FALSE]
  ELSE IF tok.marker = "FIX_LINE"
  THEN [st EXCEPT !.inFixFile = FALSE, !.inFixLine = TRUE, !.inFixContent = FALSE]
  ELSE IF tok.marker = "FIX_CONTENT"
  THEN [st EXCEPT !.inFixFile = FALSE, !.inFixLine = FALSE, !.inFixContent = TRUE]
  ELSE IF tok.marker = "FIX_END"
  THEN [st EXCEPT !.inFixContent = FALSE,
                  !.chunks = Append(@, [type |-> "fix", agent |-> "Summary",
                                        content |-> st.fixContent,
                                        file |-> st.fixFile, line |-> st.fixLine])]
  ELSE LET s1 == IF tok.marker \in DOMAIN AgentMarkers
                 THEN [st EXCEPT !.currentAgent = AgentMarkers[tok.marker]]
                 ELSE st
       IN IF s1.inFixFile THEN [s1 EXCEPT !.fixFile = @ \o ContentOf(tok)]
          ELSE IF s1.inFixLine
          THEN [s1 EXCEPT !.fixLine = IF ParseInt(tok) # -1
                                       THEN ParseInt(tok) ELSE @]
          ELSE IF s1.inFixContent THEN [s1 EXCEPT !.fixContent = @ \o ContentOf(tok)]
          ELSE [s1 EXCEPT !.chunks =
                  Append(@, [type |-> "chunk", agent |-> s1.currentAgent,
                             content |-> WithoutMarkers(tok), file |-> <<>>,
                             line |-> 0])]

RECURSIVE OpenAIStreamLoop(_, _)
OpenAIStreamLoop(st, tokens) ==
  IF tokens = <<>> THEN st
  ELSE OpenAIStreamLoop(OpenAIStreamStep(st, Head(tokens)), Tail(tokens))

\* a ForgeStreamChunk without a fix; content also holds the status or the
\* command
PlainChunk(type, agent, content) ==
  [type |-> type, agent |-> agent, content |-> content, file |-> <<>>, line |-> 0]

\* the chunks analyzeWithOpenAIStream yields for a backend stream
OpenAIStreamChunks(tokens) ==
  LET st == OpenAIStreamLoop(
              [currentAgent |-> "Security", fixFile |-> <<>>, fixLine |-> 1,
               fixContent |-> <<>>, inFixFile |-> FALSE, inFixLine |-> FALSE,
               inFixContent |-> FALSE, chunks |-> <<>>], tokens)
  IN Append(st.chunks, PlainChunk("done", st.currentAgent, ""))

\* the chunks getMockAnalysisStream yields
MockStreamChunks ==
  <<PlainChunk("chunk", "Workflow", "failure in the Test Suite step"),
    PlainChunk("chunk", "Workflow", "exit code 1"),
    PlainChunk("chunk", "Security", "Scanning changed files"),
    PlainChunk("chunk", "Security", "No hardcoded secrets found"),
    PlainChunk("chunk", "Performance", "Analyzing PR Diff"),
    PlainChunk("chunk", "Performance", "potential O(n) lookup"),
    PlainChunk("chunk", "Test", "add a unit test"),
    [type |-> "fix", agent |-> "Summary", content |-> <<"return await">>,
     file |-> <<"src/auth/login.ts">>, line |-> 42],
    PlainChunk("done", "Summary", "")>>

\* AIProvider.analyzeFailureStream: the chunks of the provider's generator and
\* how it ends ("throw" without an API key)
AnalyzeFailureStream(config, tokens) ==
  IF config.provider = "Mock"
  THEN [chunks |-> MockStreamChunks, ending |-> "return"]
  ELSE IF config.provider = "Ollama"
  THEN [chunks |-> <<PlainChunk("status", "Workflow", "Ollama stream N/A")>>,
        ending |-> "return"]
  ELSE IF ~config.hasApiKey
  THEN [chunks |-> <<>>, ending |-> "throw"]
  ELSE [chunks |-> OpenAIStreamChunks(tokens), ending |-> "return"]

\* MultiAgentOrchestrator.runStreamingPipeline: every chunk the generator
\* yields when it is driven to its end, in order, and how it ends
StreamPlan(logAnalysis, config, tokens) ==
  LET ai == AnalyzeFailureStream(config, tokens)
      head == <<PlainChunk("status", "Workflow", "Parsing logs..."),
                PlainChunk("status", "Workflow", "Consulting Expert Agents...")>>
      tail == (IF logAnalysis.suggestedVerificationCommand # ""
               THEN <<PlainChunk("verification", "Summary",
                                 logAnalysis.suggestedVerificationCommand)>>
               ELSE <<>>)
              \o (IF logAnalysis.detectedErrorType = "test"
                  THEN <<PlainChunk("status", "Test",
                                    "Initiating recovery test generation...")>>
                  ELSE <<>>)
  IN IF ai.ending = "throw"
     THEN [chunks |-> head, ending |-> "throw"]
     ELSE [chunks |-> head \o ai.chunks \o tail, ending |-> "return"]

\* an async generator runs its body only to answer a next() request; the
\* requests made while it runs or waits are queued, and after a yield it goes
\* on without suspending when a request is queued
CanProduce(st) == st.status = "running" /\ st.pulls > Len(st.emitted)

\* the generator object of a run: plan is what its body will yield, emitted
\* what it has yielded, pulls the next() requests the consumer has made,
\* acknowledged the number of chunks that had been yielded when the consumer
\* made its latest request
StartStream(logAnalysis, config, tokens) ==
  [status |-> "running", plan |-> StreamPlan(logAnalysis, config, tokens),
   emitted |-> <<>>, pulls |-> 0, acknowledged |-> 0]

NoStream ==
  [status |-> "none", plan |-> [chunks |-> <<>>, ending |-> "return"],
   emitted |-> <<>>, pulls |-> 0, acknowledged |-> 0]

\* the consumer calls next(): a request after chunk n is the only sign the
\* generator gets that the consumer is done with chunk n
StreamNext(st) == [st EXCEPT !.pulls = @ + 1, !.acknowledged = Len(st.emitted)]

\* the body runs to its next yield, or to its end
StreamResume(st) ==
  IF Len(st.emitted) < Len(st.plan.chunks)
  THEN [st EXCEPT !.emitted = Append(@, st.plan.chunks[Len(st.emitted) + 1])]
  ELSE [st EXCEPT !.status = IF st.plan.ending = "throw" THEN "threw"
                             ELSE "completed"]

\* ------------------------------------------------------------ patch generator
\* longest text, in lines, that is diffed
MaxDiffLines == 3
\* search window of the lookahead of myersDiff
LookAhead == 10
DefaultContext == 3

DiffOp(type, value) == [type |-> type, value |-> value]

\* number of consecutive equal lines from positions i and j (0-based)
RECURSIVE EqualRun(_, _, _, _)
EqualRun(original, modified, i, j) ==
  IF i < Len(original) /\ j < Len(modified) /\ original[i + 1] = modified[j + 1]
  THEN 1 + EqualRun(original, modified, i + 1, j + 1)
  ELSE 0

\* "Try deletions": the farthest di in the window with original[di] = modified[j]
BestDeleteLen(original, modified, i, j) ==
  LET found == {di - i : di \in {d \in i .. (Min(i + LookAhead, Len(original)) - 1) :
                                   original[d + 1] = modified[j + 1]}}
  IN IF found = {} THEN 0 ELSE CHOOSE n \in found : \A k \in found : k <= n

\* "Try insertions": the farthest dj in the window with original[i] = modified[dj]
BestInsertLen(original, modified, i, j) ==
  LET found == {dj - j : dj \in {d \in j .. (Min(j + LookAhead, Len(modified)) - 1) :
                                   original[i + 1] = modified[d + 1]}}
  IN IF found = {} THEN 0 ELSE CHOOSE n \in found : \A k \in found : k <= n

\* the loop of PatchGenerator.myersDiff from positions i and j (0-based)
RECURSIVE MyersFrom(_, _, _, _)
MyersFrom(original, modified, i, j) ==
  IF ~(i < Len(original) \/ j < Len(modified)) THEN <<>>
  ELSE IF i >= Len(original)
  THEN <<DiffOp("insert", SubSeq(modified, j + 1, Len(modified)))>>
  ELSE IF j >= Len(modified)
  THEN <<DiffOp("delete", SubSeq(original, i + 1, Len(original)))>>
  ELSE IF original[i + 1] = modified[j + 1]
  THEN LET n == EqualRun(original, modified, i, j)
       IN <<DiffOp("equal", SubSeq(original, i + 1, i + n))>>
            \o MyersFrom(original, modified, i + n, j + n)
  ELSE LET bestDeleteLen == BestDeleteLen(original, modified, i, j)
           bestInsertLen == BestInsertLen(original, modified, i, j)
       IN IF bestDeleteLen >= bestInsertLen /\ bestDeleteLen > 0
          THEN <<DiffOp("delete", SubSeq(original, i + 1, i + bestDeleteLen))>>
                 \o MyersFrom(original, modified, i + bestDeleteLen, j)
          ELSE IF bestInsertLen > 0
          THEN <<DiffOp("insert", SubSeq(modified, j + 1, j + bestInsertLen))>>
                 \o MyersFrom(original, modified, i, j + bestInsertLen)
          ELSE <<DiffOp("delete", <<original[i + 1]>>)>>
                 \o MyersFrom(original, modified, i + 1, j)

MyersDiff(original, modified) == MyersFrom(original, modified, 0, 0)

\* lines.map(line => tag + line)
TagLines(tag, lines) == [k \in DOMAIN lines |-> HunkLine(tag, lines[k])]

\* lines.filter(l => !l.startsWith(tag)).length
RECURSIVE CountNot(_, _)
CountNot(lines, tag) ==
  IF lines = <<>> THEN 0
  ELSE (IF Head(lines).tag # tag THEN 1 ELSE 0) + CountNot(Tail(lines), tag)

\* lines.filter(l => l.startsWith(tag)).length
CountTag(lines, tag) == Len(lines) - CountNot(lines, tag)

NoHunk == <<>>

NewHunk(oldStart, newStart) ==
  [oldStart |-> oldStart, oldLines |-> 0, newStart |-> newStart, newLines |-> 0,
   lines |-> <<>>]

\* lines.slice(0, -context)
SliceOff(lines, context) ==
  IF context = 0 THEN <<>> ELSE SubSeq(lines, 1, Len(lines) - context)

\* one turn of the loop of computeHunks over the operations of the diff
ComputeHunksStep(st, op, context) ==
  IF op.type = "equal"
  THEN LET close == st.currentHunk # NoHunk
                      /\ Len(st.currentHunk.lines) > context * 2
           trimmedLines == SliceOff(st.currentHunk.lines, context)
           hunks == IF close
                    THEN Append(st.hunks,
                           [st.currentHunk EXCEPT
                              !.newLines = CountNot(trimmedLines, "-") - context,
                              !.oldLines = CountNot(trimmedLines, "+") - context])
                    ELSE st.hunks
           cur == IF close \/ st.currentHunk = NoHunk
                  THEN NewHunk(Max(1, st.oldLineNum - context),
                               Max(1, st.newLineNum - context))
                  ELSE st.currentHunk
       IN [hunks |-> hunks,
           currentHunk |-> [cur EXCEPT !.lines = @ \o TagLines(" ", op.value)],
           oldLineNum |-> st.oldLineNum + Len(op.value),
           newLineNum |-> st.newLineNum + Len(op.value)]
  ELSE LET cur == IF st.currentHunk = NoHunk
                  THEN NewHunk(st.oldLineNum, st.newLineNum)
                  ELSE st.currentHunk
       IN IF op.type = "insert"
          THEN [st EXCEPT !.currentHunk =
                            [cur EXCEPT !.lines = @ \o TagLines("+", op.value)],
                          !.newLineNum = @ + Len(op.value)]
          ELSE [st EXCEPT !.currentHunk =
                            [cur EXCEPT !.lines = @ \o TagLines("-", op.value)],
                          !.oldLineNum = @ + Len(op.value)]

RECURSIVE ComputeHunksLoop(_, _, _)
ComputeHunksLoop(st, ops, context) ==
  IF ops = <<>> THEN st
  ELSE ComputeHunksLoop(ComputeHunksStep(st, Head(ops), context), Tail(ops), context)

\* PatchGenerator.computeHunks
ComputeHunks(originalLines, modifiedLines, context) ==
  LET st == ComputeHunksLoop(
              [hunks |-> <<>>, currentHunk |-> NoHunk, oldLineNum |-> 1,
               newLineNum |-> 1],
              MyersDiff(originalLines, modifiedLines), context)
  IN IF st.currentHunk # NoHunk THEN Append(st.hunks, st.currentHunk) ELSE st.hunks

\* PatchGenerator.generatePatch(filename, original, modified, context)
GeneratePatch(filename, original, modified, context) ==
  IF IsEmptyString(original) /\ ~IsEmptyString(modified)
  THEN [filename |-> filename, isNewFile |-> TRUE, isDeletedFile |-> FALSE,
        hunks |-> <<[oldStart |-> 0, oldLines |-> 0, newStart |-> 1,
                     newLines |-> Len(modified),
                     lines |-> TagLines("+", modified)]>>]
  ELSE IF ~IsEmptyString(original) /\ IsEmptyString(modified)
  THEN [filename |-> filename, isNewFile |-> FALSE, isDeletedFile |-> TRUE,
        hunks |-> <<[oldStart |-> 1, oldLines |-> Len(original), newStart |-> 0,
                     newLines |-> 0,
                     lines |-> TagLines("-", original)]>>]
  ELSE [filename |-> filename, isNewFile |-> FALSE, isDeletedFile |-> FALSE,
        hunks |-> ComputeHunks(original, modified, context)]

\* one patch of the generator: the texts it was made from, the patch, and the
\* text it has been applied to so far
StartDiff(original, modified, context) ==
  [status |-> "generated", original |-> original, modified |-> modified,
   context |-> context,
   patch |-> GeneratePatch("a.txt", original, modified, context),
   text |-> original]

NoDiff ==
  [status |-> "none", original |-> EmptyText, modified |-> EmptyText,
   context |-> DefaultContext,
   patch |-> [filename |-> "a.txt", isNewFile |-> FALSE, isDeletedFile |-> FALSE,
              hunks |-> <<>>],
   text |-> EmptyText]

\* PatchGenerator.applyPatch(text, patch)
DiffApplied(d) ==
  [d EXCEPT !.status = "applied", !.text = ApplyPatchText(d.text, d.patch)]

\* PatchGenerator.applyPatch(text, DiffEngine.reversePatch(patch))
DiffReversed(d) ==
  [d EXCEPT !.status = "reversed",
            !.text = ApplyPatchText(d.text, ReversePatch(d.patch))]

\* ------------------------------------------------------------ log parser
\* longest log, in lines
MaxLogLines == 2

\* a log text is a sequence of lines, a line a sequence of characters
LowerSeq ==
  <<"a", "b", "c", "d", "e", "f", "g", "h", "i", "j", "k", "l", "m", "n",
    "o", "p", "q", "r", "s", "t", "u", "v", "w", "x", "y", "z">>

UpperSeq ==
  <<"A", "B", "C", "D", "E", "F", "G", "H", "I", "J", "K", "L", "M", "N",
    "O", "P", "Q", "R", "S", "T", "U", "V", "W", "X", "Y", "Z">>

Lower == {LowerSeq[k] : k \in DOMAIN LowerSeq}
Upper == {UpperSeq[k] : k \in DOMAIN UpperSeq}
Digit ==
  {"0", "1", "2", "3", "4", "5", "6", "7", "8", "9"}
Alpha == Lower \cup Upper
AlphaNum == Alpha \cup Digit
\* \s
Space == {" ", "\t", "\n"}

\* String.prototype.toUpperCase on one character
ToUpper(c) ==
  IF c \in Lower THEN UpperSeq[CHOOSE k \in DOMAIN LowerSeq : LowerSeq[k] = c] ELSE c

ToLower(c) ==
  IF c \in Upper THEN LowerSeq[CHOOSE k \in DOMAIN UpperSeq : UpperSeq[k] = c] ELSE c

\* a regular expression is a sequence of alternatives, an alternative a
\* sequence of items. An item is a literal (under the i flag when fold), or
\* a character class with a greedy repetition: the characters in set
\* (outside it when neg), min to max times, max = -1 for no upper limit
Item(set, neg, min, max) ==
  [kind |-> "set", chars |-> <<>>, fold |-> FALSE, set |-> set, neg |-> neg,
   min |-> min, max |-> max]
One(set) == <<Item(set, FALSE, 1, 1)>>
Plus(set) == <<Item(set, FALSE, 1, -1)>>
Star(set) == <<Item(set, FALSE, 0, -1)>>
Opt(set) == <<Item(set, FALSE, 0, 1)>>
Times(set, n) == <<Item(set, FALSE, n, n)>>
AtLeast(set, n) == <<Item(set, FALSE, n, -1)>>
PlusNot(set) == <<Item(set, TRUE, 1, -1)>>
StarNot(set) == <<Item(set, TRUE, 0, -1)>>
Lit(chars) ==
  <<[kind |-> "lit", chars |-> chars, fold |-> FALSE, set |-> {}, neg |-> FALSE,
     min |-> 1, max |-> 1]>>
LitI(chars) ==
  <<[kind |-> "lit", chars |-> chars, fold |-> TRUE, set |-> {}, neg |-> FALSE,
     min |-> 1, max |-> 1]>>

SetMin(S) == CHOOSE x \in S : \A y \in S : x <= y
SetMax(S) == CHOOSE x \in S : \A y \in S : y <= x

ItemTakes(item, c) == (c \in item.set) # item.neg

\* the literal stands at position pos (1-based)
LitMatches(item, chars, pos) ==
  /\ pos + Len(item.chars) - 1 <= Len(chars)
  /\ \A k \in DOMAIN item.chars :
       IF item.fold THEN ToLower(chars[pos + k - 1]) = ToLower(item.chars[k])
       ELSE chars[pos + k - 1] = item.chars[k]

\* how many characters from position pos on the class can take, at most cap
RunLen(item, chars, pos, cap) ==
  LET last == Min(Len(chars), pos + cap - 1)
      stop == {j \in pos .. last : ~ItemTakes(item, chars[j])}
  IN IF stop = {} THEN Max(last - pos + 1, 0) ELSE SetMin(stop) - pos

\* the position after the match of items[k..] at pos, the longest
\* repetition that lets the rest match first; -1 when there is none
RECURSIVE MatchFrom(_, _, _, _)
MatchFrom(items, k, chars, pos) ==
  IF k > Len(items) THEN pos
  ELSE IF items[k].kind = "lit"
  THEN IF LitMatches(items[k], chars, pos)
       THEN MatchFrom(items, k + 1, chars, pos + Len(items[k].chars))
       ELSE -1
  ELSE LET cap == IF items[k].max = -1 THEN Len(chars) ELSE items[k].max
           longest == RunLen(items[k], chars, pos, cap)
           ok == {n \in items[k].min .. longest :
                    MatchFrom(items, k + 1, chars, pos + n) # -1}
       IN IF ok = {} THEN -1
          ELSE MatchFrom(items, k + 1, chars, pos + SetMax(ok))

\* the first alternative that matches at pos decides
RECURSIVE MatchAt(_, _, _)
MatchAt(regex, chars, pos) ==
  IF regex = <<>> THEN -1
  ELSE LET e == MatchFrom(Head(regex), 1, chars, pos)
       IN IF e # -1 THEN e ELSE MatchAt(Tail(regex), chars, pos)

NoMatch == [start |-> 0, end |-> 0]

\* the leftmost match that starts at pos or later
FindMatch(regex, chars, pos) ==
  LET starts == {q \in pos .. (Len(chars) + 1) : MatchAt(regex, chars, q) # -1}
  IN IF starts = {} THEN NoMatch
     ELSE [start |-> SetMin(starts), end |-> MatchAt(regex, chars, SetMin(starts))]

\* RegExp.prototype.test
Test(regex, chars) == FindMatch(regex, chars, 1) # NoMatch

\* String.prototype.includes
Includes(chars, literal) == Test(<<Lit(literal)>>, chars)

\* the position after a match, one further after an empty match
NextPos(m) == IF m.end = m.start THEN m.end + 1 ELSE m.end

\* String.prototype.match with the g flag: the number of matches
RECURSIVE MatchCountFrom(_, _, _)
MatchCountFrom(regex, chars, pos) ==
  LET m == FindMatch(regex, chars, pos)
  IN IF m = NoMatch THEN 0 ELSE 1 + MatchCountFrom(regex, chars, NextPos(m))

MatchCount(regex, chars) == MatchCountFrom(regex, chars, 1)

\* String.prototype.replace with the g flag and a plain replacement
RECURSIVE ReplaceFrom(_, _, _, _)
ReplaceFrom(regex, chars, pos, replacement) ==
  LET m == FindMatch(regex, chars, pos)
  IN IF m = NoMatch THEN SubSeq(chars, pos, Len(chars))
     ELSE SubSeq(chars, pos, m.start - 1) \o replacement
            \o (IF m.end = m.start /\ m.start <= Len(chars)
                THEN <<chars[m.start]>> ELSE <<>>)
            \o ReplaceFrom(regex, chars, NextPos(m), replacement)

ReplaceAll(regex, chars, replacement) == ReplaceFrom(regex, chars, 1, replacement)

\* lines.join('\n')
RECURSIVE JoinLines(_)
JoinLines(lines) ==
  IF lines = <<>> THEN <<>>
  ELSE IF Len(lines) = 1 THEN Head(lines)
  ELSE Head(lines) \o <<"\n">> \o JoinLines(Tail(lines))

\* text.split('\n'): never empty, the empty text is one empty line
RECURSIVE SplitFrom(_, _)
SplitFrom(chars, pos) ==
  LET nl == {j \in pos .. Len(chars) : chars[j] = "\n"}
  IN IF nl = {} THEN <<SubSeq(chars, pos, Len(chars))>>
     ELSE <<SubSeq(chars, pos, SetMin(nl) - 1)>> \o SplitFrom(chars, SetMin(nl) + 1)

SplitLines(chars) == SplitFrom(chars, 1)

\* the decimal digits of a natural number
RECURSIVE NumChars(_)
NumChars(n) ==
  LET d == <<"0", "1", "2", "3", "4", "5", "6", "7", "8", "9">>[(n % 10) + 1]
  IN IF n < 10 THEN <<d>> ELSE NumChars(n \div 10) \o <<d>>

\* ---- LogPreprocessor
DefaultHeadLines == 100
DefaultTailLines == 500

\* the characters of the classes of SECRET_PATTERNS
UrlSafe == AlphaNum \cup {"-", ".", "_", "~", "+", "/"}
EmailLocal == AlphaNum \cup {"+", "_", ".", "-"}
EmailDomain == AlphaNum \cup {".", "-"}
TokenSep == {"\"", "'", ":", "="} \cup Space
TokenChars == AlphaNum \cup {"-", "_"}

\* /ghp_[a-zA-Z0-9]{36}/g
GitHubTokenPattern ==
  <<Lit(<<"g", "h", "p", "_">>) \o Times(AlphaNum, 36)>>

\* /ghu_[a-zA-Z0-9]{36}/g
GitHubUserTokenPattern ==
  <<Lit(<<"g", "h", "u", "_">>) \o Times(AlphaNum, 36)>>

\* /ghs_[a-zA-Z0-9]{36}/g
GitHubAppTokenPattern ==
  <<Lit(<<"g", "h", "s", "_">>) \o Times(AlphaNum, 36)>>

\* /AKIA[0-9A-Z]{16}/g
AwsAccessKeyPattern ==
  <<Lit(<<"A", "K", "I", "A">>) \o Times(Digit \cup Upper, 16)>>

\* /aws_secret_access_key\s*=\s*[^\s]+/gi
AwsSecretKeyPattern ==
  <<LitI(<<"a", "w", "s", "_", "s", "e", "c", "r", "e", "t", "_", "a", "c",
        "c", "e", "s", "s", "_", "k", "e", "y">>)
      \o Star(Space) \o Lit(<<"=">>) \o Star(Space) \o PlusNot(Space)>>

\* /https?:\/\/[^:]+:[^@]+@/g
BasicAuthUrlPattern ==
  <<Lit(<<"h", "t", "t", "p">>) \o Opt({"s"}) \o Lit(<<":", "/", "/">>)
      \o PlusNot({":"}) \o Lit(<<":">>) \o PlusNot({"@"}) \o Lit(<<"@">>)>>

\* /[a-zA-Z0-9+_.-]+@[a-zA-Z0-9.-]+\.[a-zA-Z]{2,}/g
EmailPattern ==
  <<Plus(EmailLocal) \o Lit(<<"@">>) \o Plus(EmailDomain) \o Lit(<<".">>)
      \o AtLeast(Alpha, 2)>>

\* /Bearer [a-zA-Z0-9\-\._~+\/]+=*/g
BearerPattern ==
  <<Lit(<<"B", "e", "a", "r", "e", "r", " ">>) \o Plus(UrlSafe) \o Star({"="})>>

\* /Authorization:\s*[^\s]+/gi
AuthorizationPattern ==
  <<LitI(<<"A", "u", "t", "h", "o", "r", "i", "z", "a", "t", "i", "o", "n",
        ":">>)
      \o Star(Space) \o PlusNot(Space)>>

\* /token[\"':\s=]+[a-zA-Z0-9\-_]+/gi
TokenValuePattern ==
  <<LitI(<<"t", "o", "k", "e", "n">>) \o Plus(TokenSep) \o Plus(TokenChars)>>

SecretPattern(pattern, name) == [pattern |-> pattern, name |-> name]

\* LogPreprocessor.SECRET_PATTERNS
SECRET_PATTERNS ==
  <<SecretPattern(GitHubTokenPattern,
                  <<"G", "i", "t", "H", "u", "b", " ", "T", "o", "k", "e",
                    "n">>),
    SecretPattern(GitHubUserTokenPattern,
                  <<"G", "i", "t", "H", "u", "b", " ", "U", "s", "e", "r",
                    " ", "T", "o", "k", "e", "n">>),
    SecretPattern(GitHubAppTokenPattern,
                  <<"G", "i", "t", "H", "u", "b", " ", "A", "p", "p", " ",
                    "T", "o", "k", "e", "n">>),
    SecretPattern(AwsAccessKeyPattern,
                  <<"A", "W", "S", " ", "A", "c", "c", "e", "s", "s", " ",
                    "K", "e", "y">>),
    SecretPattern(AwsSecretKeyPattern,
                  <<"A", "W", "S", " ", "S", "e", "c", "r", "e", "t", " ",
                    "K", "e", "y">>),
    SecretPattern(BasicAuthUrlPattern,
                  <<"B", "a", "s", "i", "c", " ", "A", "u", "t", "h", " ",
                    "U", "R", "L">>),
    SecretPattern(EmailPattern,
                  <<"E", "m", "a", "i", "l", " ", "A", "d", "d", "r", "e",
                    "s", "s">>),
    SecretPattern(BearerPattern,
                  <<"B", "e", "a", "r", "e", "r", " ", "T", "o", "k", "e",
                    "n">>),
    SecretPattern(AuthorizationPattern,
                  <<"A", "u", "t", "h", "o", "r", "i", "z", "a", "t", "i",
                    "o", "n", " ", "H", "e", "a", "d", "e", "r">>),
    SecretPattern(TokenValuePattern,
                  <<"T", "o", "k", "e", "n", " ", "V", "a", "l", "u", "e">>)>>

\* '[REDACTED_' + name.toUpperCase().replace(/\s+/g, '_') + ']'; the spaces
\* of the names are single
Placeholder(name) ==
  <<"[", "R", "E", "D", "A", "C", "T", "E", "D", "_">>
    \o [k \in DOMAIN name |-> IF name[k] \in Space THEN "_" ELSE ToUpper(name[k])]
    \o <<"]">>

\* one turn of the loop of LogPreprocessor.redact
RedactStep(st, p) ==
  LET matches == MatchCount(p.pattern, st.processed)
  IN IF matches > 0
     THEN [processed |-> ReplaceAll(p.pattern, st.processed, Placeholder(p.name)),
           secretsCount |-> st.secretsCount + matches,
           redactionPatterns |-> st.redactionPatterns \cup {p.name}]
     ELSE st

RECURSIVE RedactLoop(_, _)
RedactLoop(st, patterns) ==
  IF patterns = <<>> THEN st
  ELSE RedactLoop(RedactStep(st, Head(patterns)), Tail(patterns))

\* LogPreprocessor.redact(logs), on the characters of the text
Redact(logs) ==
  RedactLoop([processed |-> logs, secretsCount |-> 0, redactionPatterns |-> {}],
             SECRET_PATTERNS)

\* lines.slice(0, n) for n >= 0
SliceFirst(lines, n) == SubSeq(lines, 1, Min(n, Len(lines)))

\* lines.slice(-n) for n >= 0; slice(-0) is slice(0), the whole array
SliceLast(lines, n) ==
  IF n = 0 THEN lines ELSE SubSeq(lines, Max(Len(lines) - n, 0) + 1, Len(lines))

\* the marker element without its leading and trailing newline
PruneMarker(prunedLines) ==
  <<"[", "F", "O", "R", "G", "E", " ", "L", "O", "G", " ", "P", "R", "U",
    "N", "I", "N", "G", ":", " ", "R", "e", "m", "o", "v", "e", "d", " ">>
    \o NumChars(prunedLines)
    \o <<" ", "l", "i", "n", "e", "s", " ", "o", "f", " ", "i", "n", "t", "e",
      "r", "m", "e", "d", "i", "a", "t", "e", " ", "b", "u", "i", "l", "d",
      " ", "o", "u", "t", "p", "u", "t", "]">>

\* LogPreprocessor.prune(logs, headLines, tailLines), on the lines of the
\* text; the marker element starts and ends with a newline, so that joined
\* with the rest it is an empty line, the marker line and an empty line
Prune(lines, headLines, tailLines) ==
  LET totalLines == Len(lines)
  IN IF totalLines <= headLines + tailLines
     THEN [pruned |-> lines, prunedLines |-> 0, totalLines |-> totalLines]
     ELSE LET prunedLines == totalLines - (headLines + tailLines)
          IN [pruned |-> SliceFirst(lines, headLines)
                           \o <<<<>>, PruneMarker(prunedLines), <<>>>>
                           \o SliceLast(lines, tailLines),
              prunedLines |-> prunedLines, totalLines |-> totalLines]

\* LogPreprocessor.process(logs, headLines, tailLines)
Process(lines, headLines, tailLines) ==
  LET redacted == Redact(JoinLines(lines))
      pruned == Prune(SplitLines(redacted.processed), headLines, tailLines)
  IN [processedLog |-> pruned.pruned,
      metadata |-> [totalLines |-> pruned.totalLines,
                    prunedLines |-> pruned.prunedLines,
                    secretsRedacted |-> redacted.secretsCount,
                    redactionPatterns |-> redacted.redactionPatterns]]

\* null for workflowContent and prDiff
Null == <<"null">>

DefaultConfig == [provider |-> "OpenAI", hasApiKey |-> TRUE]

\* ---- LogProcessor and LogParser of agent/logs.ts
LegacyHeadLines == 100
LegacyTailLines == 500
LegacyPruneLimit == 600
LINES_BEFORE == 50
LINES_AFTER == 20

\* any character
AnyChar == Item({}, TRUE, 1, 1)
AnyStar == <<Item({}, TRUE, 0, -1)>>

\* LogProcessor.SECRET_PATTERNS
LegacySecretPatterns ==
  <<GitHubTokenPattern, AwsAccessKeyPattern, BasicAuthUrlPattern, EmailPattern,
    BearerPattern>>

RedactedSecret ==
  <<"[", "R", "E", "D", "A", "C", "T", "E", "D", "_", "S", "E", "C", "R",
    "E", "T", "]">>

\* LogProcessor.scrub(logs)
RECURSIVE Scrub(_, _)
Scrub(chars, patterns) ==
  IF patterns = <<>> THEN chars
  ELSE Scrub(ReplaceAll(Head(patterns), chars, RedactedSecret), Tail(patterns))

LegacyPruneMarker(n) ==
  <<".", ".", ".", " ", "[", "F", "O", "R", "G", "E", ":", " ", "P", "r",
    "u", "n", "e", "d", " ">>
    \o NumChars(n)
    \o <<" ", "l", "i", "n", "e", "s", " ", "o", "f", " ", "s", "u", "c", "c",
      "e", "s", "s", "f", "u", "l", " ", "i", "n", "t", "e", "r", "m", "e",
      "d", "i", "a", "t", "e", " ", "l", "o", "g", "s", "]", " ", ".", ".",
      ".">>

\* LogProcessor.prune(logs)
LegacyPrune(lines) ==
  IF Len(lines) <= LegacyPruneLimit THEN lines
  ELSE SliceFirst(lines, LegacyHeadLines)
         \o <<<<>>, LegacyPruneMarker(Len(lines) - LegacyPruneLimit), <<>>>>
         \o SliceLast(lines, LegacyTailLines)

\* LogProcessor.process(rawLogs)
LegacyProcess(lines) ==
  LegacyPrune(SplitLines(Scrub(JoinLines(lines), LegacySecretPatterns)))

\* /^\d{4}-\d{2}-\d{2}T\d{2}:\d{2}:\d{2}.\d+Z\s+/
TimestampPrefix ==
  Times(Digit, 4) \o Lit(<<"-">>) \o Times(Digit, 2) \o Lit(<<"-">>)
    \o Times(Digit, 2) \o Lit(<<"T">>) \o Times(Digit, 2) \o Lit(<<":">>)
    \o Times(Digit, 2) \o Lit(<<":">>) \o Times(Digit, 2) \o <<AnyChar>>
    \o Plus(Digit) \o Lit(<<"Z">>) \o Plus(Space)

\* line.replace(TimestampPrefix, '')
CutTo(line, e) == IF e = -1 THEN line ELSE SubSeq(line, e, Len(line))

CleanLine(line) == CutTo(line, MatchFrom(TimestampPrefix, 1, line, 1))

ErrorPattern(pattern, type) == [pattern |-> pattern, type |-> type]

\* LogParser.ERROR_PATTERNS
ERROR_PATTERNS ==
  <<ErrorPattern(<<LitI(<<"E", "r", "r", "o", "r", ":", " ">>) \o AnyStar>>, "general"),
    ErrorPattern(<<LitI(<<"F", "a", "t", "a", "l", ":", " ">>) \o AnyStar>>, "critical"),
    ErrorPattern(<<LitI(<<"F", "A", "I", "L", "E", "D">>)>>, "test"),
    ErrorPattern(<<Lit(<<"P", "r", "o", "c", "e", "s", "s", " ", "c", "o", "m", "p", "l",
        "e", "t", "e", "d", " ", "w", "i", "t", "h", " ", "e", "x", "i",
        "t", " ", "c", "o", "d", "e", " ">>)
                     \o Plus(Digit)>>, "exit"),
    ErrorPattern(<<Lit(<<"n", "p", "m", " ", "E", "R", "R", "!">>)>>, "build"),
    ErrorPattern(<<Lit(<<"e", "r", "r", "o", "r", " ", "T", "S">>) \o Plus(Digit)>>, "build"),
    ErrorPattern(<<LitI(<<"P", "e", "r", "m", "i", "s", "s", "i", "o", "n", " ", "d", "e",
        "n", "i", "e", "d">>)>>, "auth"),
    ErrorPattern(<<Lit(<<"4", "0", "3">>)>>, "auth"),
    ErrorPattern(<<Lit(<<"4", "0", "1">>)>>, "auth"),
    ErrorPattern(<<LitI(<<"I", "n", "v", "a", "l", "i", "d", " ", "t", "o", "k", "e", "n">>)>>, "auth")>>

\* the type of the first error pattern the line matches, "" for none
RECURSIVE FirstErrorType(_, _)
FirstErrorType(cleanLine, patterns) ==
  IF patterns = <<>> THEN ""
  ELSE IF Test(Head(patterns).pattern, cleanLine) THEN Head(patterns).type
  ELSE FirstErrorType(cleanLine, Tail(patterns))

\* the type the first matching line gets, lines 109-113
DetectedType(cleanLine, type) ==
  IF type = "auth" \/ Includes(cleanLine, <<"P", "e", "r", "m", "i", "s", "s", "i", "o", "n", " ", "d", "e", "n",
    "i", "e", "d">>)
  THEN "auth"
  ELSE IF Includes(cleanLine, <<"n", "p", "m">>) \/ type = "build" THEN "build"
  ELSE IF Includes(cleanLine, <<"t", "e", "s", "t">>) \/ type = "test" THEN "test"
  ELSE IF Includes(cleanLine, <<"d", "e", "p", "l", "o", "y">>) THEN "deploy"
  ELSE "unknown"

\* the command a line suggests, "" for none, lines 97-99
SuggestedCommand(cleanLine) ==
  IF Includes(cleanLine, <<"n", "p", "m", " ", "t", "e", "s", "t">>)
       \/ Includes(cleanLine, <<"n", "p", "m", " ", "r", "u", "n", " ", "t", "e", "s", "t">>)
  THEN "npm test"
  ELSE IF Includes(cleanLine, <<"j", "e", "s", "t">>) THEN "npx jest"
  ELSE IF Includes(cleanLine, <<"p", "y", "t", "e", "s", "t">>) THEN "pytest"
  ELSE ""

\* one turn of the loop of LogParser.parse over the lines
ScanLine(st, i, cleanLine, type) ==
  IF type # "" /\ st.errorIndex = -1
  THEN [st EXCEPT !.errorIndex = i,
                  !.detectedType = DetectedType(cleanLine, type)]
  ELSE st

WithCommand(st, cmd) ==
  IF cmd # "" THEN [st EXCEPT !.suggestedCommand = cmd] ELSE st

LegacyParseClean(st, cleanLine, i) ==
  ScanLine(WithCommand(st, SuggestedCommand(cleanLine)), i, cleanLine,
           FirstErrorType(cleanLine, ERROR_PATTERNS))

LegacyParseStep(st, line, i) == LegacyParseClean(st, CleanLine(line), i)

RECURSIVE LegacyParseLoop(_, _, _)
LegacyParseLoop(st, lines, i) ==
  IF i >= Len(lines) THEN st
  ELSE LegacyParseLoop(LegacyParseStep(st, lines[i + 1], i), lines, i + 1)

\* lines.slice(start, end) for 0 <= start
Slice(lines, start, end) == SubSeq(lines, start + 1, Min(end, Len(lines)))

\* LogParser.parse(rawLog): the fields the orchestrator reads
LegacySnippet(lines, st, errorIndex) ==
  [failureSnippet |-> Slice(lines, Max(0, errorIndex - LINES_BEFORE),
                            Min(Len(lines), errorIndex + LINES_AFTER)),
   detectedErrorType |-> st.detectedType,
   suggestedVerificationCommand |-> st.suggestedCommand]

LegacyResult(lines, st) ==
  LegacySnippet(lines, st,
                IF st.errorIndex = -1 THEN Len(lines) - 1 ELSE st.errorIndex)

LegacyParseLines(lines) ==
  LegacyResult(lines,
               LegacyParseLoop([errorIndex |-> -1, detectedType |-> "unknown",
                                suggestedCommand |-> ""], lines, 0))

LegacyParse(rawLog) == LegacyParseLines(LegacyProcess(rawLog))

\* ---- the numbers of the scorer: IEEE 754 doubles
\* A double is sign * m * 2^e with m a natural number of exactly 53 bits, or
\* zero.  m is held as limbs of 15 bits, least significant first, without
\* leading zero limbs
LimbBase == 2 ^ 15

RECURSIVE BigTrim(_)
BigTrim(a) ==
  IF a = <<>> THEN a
  ELSE IF a[Len(a)] = 0 THEN BigTrim(SubSeq(a, 1, Len(a) - 1))
  ELSE a

LimbOr0(a) == IF a = <<>> THEN 0 ELSE Head(a)
RestOf(a) == IF a = <<>> THEN a ELSE Tail(a)

RECURSIVE BigAddC(_, _, _)
BigAddLimb(a, b, x) == <<x % LimbBase>> \o BigAddC(RestOf(a), RestOf(b), x \div LimbBase)

BigAddC(a, b, carry) ==
  IF a = <<>> /\ b = <<>> THEN (IF carry = 0 THEN <<>> ELSE <<carry>>)
  ELSE BigAddLimb(a, b, LimbOr0(a) + LimbOr0(b) + carry)

BigAdd(a, b) == BigAddC(a, b, 0)

\* a - b for a >= b
RECURSIVE BigSubB(_, _, _)
BigSubLimb(a, b, x) ==
  <<x % LimbBase>> \o BigSubB(Tail(a), RestOf(b), IF x < 0 THEN 1 ELSE 0)

BigSubB(a, b, borrow) ==
  IF a = <<>> THEN <<>>
  ELSE BigSubLimb(a, b, Head(a) - LimbOr0(b) - borrow)

BigSub(a, b) == BigTrim(BigSubB(a, b, 0))

\* -1, 0 or 1 as a is less than, equal to or greater than b
RECURSIVE BigCmp(_, _)
BigCmp(a, b) ==
  IF Len(a) # Len(b) THEN (IF Len(a) < Len(b) THEN -1 ELSE 1)
  ELSE IF a = <<>> THEN 0
  ELSE IF a[Len(a)] # b[Len(b)] THEN (IF a[Len(a)] < b[Len(b)] THEN -1 ELSE 1)
  ELSE BigCmp(SubSeq(a, 1, Len(a) - 1), SubSeq(b, 1, Len(b) - 1))

\* a * n + carry for 0 <= n < LimbBase
RECURSIVE BigMulSmall(_, _, _)
BigMulLimb(a, n, x) == <<x % LimbBase>> \o BigMulSmall(Tail(a), n, x \div LimbBase)

BigMulSmall(a, n, carry) ==
  IF a = <<>> THEN (IF carry = 0 THEN <<>> ELSE <<carry>>)
  ELSE BigMulLimb(a, n, Head(a) * n + carry)

\* quotient and remainder of a by d for 0 < d < LimbBase
RECURSIVE BigDivSmall(_, _)
BigDivLimb(hi, x, d) == [q |-> <<x \div d>> \o hi.q, r |-> x % d]
BigDivStep(hi, limb, d) == BigDivLimb(hi, hi.r * LimbBase + limb, d)

BigDivSmall(a, d) ==
  IF a = <<>> THEN [q |-> <<>>, r |-> 0]
  ELSE BigDivStep(BigDivSmall(Tail(a), d), Head(a), d)

\* a * 2^k
Shl(a, k) ==
  IF a = <<>> THEN a
  ELSE [i \in 1 .. (k \div 15) |-> 0]
         \o BigMulSmall(a, Pow(2, k % 15), 0)

\* a \div 2^k
Shr(a, k) ==
  IF k \div 15 >= Len(a) THEN <<>>
  ELSE BigTrim(BigDivSmall(SubSeq(a, (k \div 15) + 1, Len(a)),
                           Pow(2, k % 15)).q)

BitLen(a) ==
  IF a = <<>> THEN 0
  ELSE 15 * (Len(a) - 1)
         + (CHOOSE n \in 1 .. 15 :
              Pow(2, n - 1) <= a[Len(a)] /\ a[Len(a)] < Pow(2, n))

BigToInt(a) ==
  IF a = <<>> THEN 0 ELSE IF Len(a) = 1 THEN a[1] ELSE a[1] + LimbBase * a[2]

Dbl(s, m, e) == [s |-> s, m |-> m, e |-> e]

DblZero == Dbl(1, <<>>, 0)

\* q had to give up a bit when the round-up carried into a 54th
Renormalized(s, q, e) ==
  IF BitLen(q) > 53 THEN Dbl(s, Shr(q, 1), e + 1) ELSE Dbl(s, q, e)

\* round to nearest, ties to even: guard is the first bit cut off, rest
\* whether anything below it is set
RoundDecided(s, q, e, guard, rest) ==
  IF guard /\ (rest \/ q[1] % 2 = 1) THEN Renormalized(s, BigAdd(q, <<1>>), e)
  ELSE Dbl(s, q, e)

\* r1 is m without its k - 1 lowest bits
RoundCut(s, m, e, sticky, k, r1) ==
  RoundDecided(s, Shr(r1, 1), e + k, r1[1] % 2 = 1,
               sticky \/ Shl(r1, k - 1) # m)

RoundBits(s, m, e, sticky, len) ==
  IF len = 0 THEN DblZero
  ELSE IF len <= 53
  THEN Dbl(s, Shl(m, 53 - len), e - (53 - len))
  ELSE RoundCut(s, m, e, sticky, len - 53,
                Shr(m, len - 53 - 1))

\* the double nearest to sign * m * 2^e (a little more when sticky)
RoundToDouble(s, m, e, sticky) == RoundBits(s, m, e, sticky, BitLen(m))

DblFromInt(n) ==
  RoundToDouble(IF n < 0 THEN -1 ELSE 1,
                BigTrim(<<Abs(n) % LimbBase, Abs(n) \div LimbBase>>), 0, FALSE)

DblOne == DblFromInt(1)

AddAligned(sx, mx, sy, my, e) ==
  IF sx = sy THEN RoundToDouble(sx, BigAdd(mx, my), e, FALSE)
  ELSE IF BigCmp(mx, my) >= 0 THEN RoundToDouble(sx, BigSub(mx, my), e, FALSE)
  ELSE RoundToDouble(sy, BigSub(my, mx), e, FALSE)

\* x + y
DblAdd(x, y) ==
  IF x.m = <<>> THEN y
  ELSE IF y.m = <<>> THEN x
  ELSE AddAligned(x.s, Shl(x.m, x.e - Min(x.e, y.e)),
                  y.s, Shl(y.m, y.e - Min(x.e, y.e)), Min(x.e, y.e))

CmpAligned(sx, mx, sy, my) ==
  IF mx = <<>> /\ my = <<>> THEN 0
  ELSE IF mx = <<>> THEN -sy
  ELSE IF my = <<>> THEN sx
  ELSE IF sx # sy THEN sx
  ELSE sx * BigCmp(mx, my)

\* -1, 0 or 1 as x < y, x = y or x > y
DblCmp(x, y) ==
  CmpAligned(x.s, Shl(x.m, x.e - Min(x.e, y.e)),
             y.s, Shl(y.m, y.e - Min(x.e, y.e)))

\* Math.min(x, y)
DblMin(x, y) == IF DblCmp(x, y) <= 0 THEN x ELSE y

\* x * n for an integer 0 <= n < LimbBase
DblTimesInt(x, n) ==
  IF n = 0 THEN DblZero
  ELSE RoundToDouble(x.s, BigMulSmall(x.m, n, 0), x.e, FALSE)

DivRounded(s, qr, e) == RoundToDouble(s, BigTrim(qr.q), e, qr.r # 0)

\* x / d for an integer 0 < d < LimbBase
DblDivInt(x, d) == DivRounded(x.s, BigDivSmall(Shl(x.m, 30), d), x.e - 30)

\* the double of a decimal literal, n thousandths
Thousandths(n) == DblDivInt(DblFromInt(n), 1000)

CeilShr(t, k, q) == BigToInt(q) + (IF Shl(q, k) = t THEN 0 ELSE 1)

\* Math.round(x) for |x| < 2^30: the integer floor(x + 0.5)
RoundedUp(x, half) ==
  IF x.s = 1 THEN BigToInt(Shr(BigAdd(x.m, half), -x.e))
  ELSE IF BigCmp(x.m, half) <= 0 THEN 0
  ELSE -CeilShr(BigSub(x.m, half), -x.e, Shr(BigSub(x.m, half), -x.e))

MathRound(x) ==
  IF x.m = <<>> THEN 0
  ELSE IF x.e >= 0 THEN x.s * BigToInt(Shl(x.m, x.e))
  ELSE RoundedUp(x, Shl(<<1>>, -x.e - 1))

\* ---- ConfidenceScorer and CILogParser of the ci-log-parser package
\* the decimal literals of the rules and of the scorer are written in
\* thousandths; Thousandths gives the double of the literal

ParseRule(id, pattern, failureType, severity, confidenceModifier, contextKeys) ==
  [id |-> id, pattern |-> pattern, failureType |-> failureType,
   severity |-> severity, confidenceModifier |-> confidenceModifier,
   contextKeys |-> contextKeys]

\* DEFAULT_RULES; contextKeys is the number of keys extractContext returns.
\* A lazy .*? and a greedy .* accept the same lines.
DEFAULT_RULES ==
  <<ParseRule("npm-err-build",
      <<Lit(<<"n", "p", "m", " ", "E", "R", "R", "!">>)>>,
      "build", "error", 900, 2),
    ParseRule("typescript-error",
      <<Lit(<<"e", "r", "r", "o", "r", " ", "T", "S">>) \o Plus(Digit) \o Lit(<<":">>)>>,
      "build", "error", 950, 1),
    ParseRule("build-failed",
      <<LitI(<<"B", "u", "i", "l", "d", " ", "f", "a", "i", "l", "e", "d">>)>>,
      "build", "error", 850, 0),
    ParseRule("test-failed",
      <<LitI(<<"F", "A", "I", "L", "E", "D">>),
       LitI(<<"f", "a", "i", "l", "e", "d">>),
       LitI(<<"T", "e", "s", "t", "s", ":">>) \o AnyStar \o Plus(Digit) \o Plus(Space)
         \o LitI(<<"f", "a", "i", "l", "e", "d">>)>>,
      "test", "error", 880, 0),
    ParseRule("jest-error",
      <<Lit(<<"F", "A", "I", "L">>) \o Plus(Space)>>,
      "test", "error", 920, 0),
    ParseRule("eslint-error",
      <<Lit(<<"e", "r", "r", "o", "r">>) \o Plus(Space) \o Plus(Digit) \o Lit(<<":">>)
         \o Plus(Digit)>>,
      "lint", "warning", 800, 0),
    ParseRule("permission-denied",
      <<LitI(<<"P", "e", "r", "m", "i", "s", "s", "i", "o", "n", " ", "d", "e",
        "n", "i", "e", "d">>),
       LitI(<<"p", "e", "r", "m", "i", "s", "s", "i", "o", "n", " ", "d", "e",
        "n", "i", "e", "d">>)>>,
      "auth", "critical", 950, 1),
    ParseRule("http-401",
      <<LitI(<<"4", "0", "1">>), LitI(<<"U", "n", "a", "u", "t", "h", "o", "r", "i", "z", "e", "d">>)>>,
      "auth", "critical", 900, 2),
    ParseRule("http-403",
      <<LitI(<<"4", "0", "3">>), LitI(<<"F", "o", "r", "b", "i", "d", "d", "e", "n">>)>>,
      "auth", "critical", 900, 2),
    ParseRule("invalid-token",
      <<LitI(<<"I", "n", "v", "a", "l", "i", "d", " ", "t", "o", "k", "e", "n">>),
       LitI(<<"i", "n", "v", "a", "l", "i", "d">>) \o AnyStar \o LitI(<<"t", "o", "k", "e", "n">>)>>,
      "auth", "critical", 920, 0),
    ParseRule("env-var-missing",
      <<LitI(<<"u", "n", "d", "e", "f", "i", "n", "e", "d", " ", "e", "n", "v",
        "i", "r", "o", "n", "m", "e", "n", "t", " ", "v", "a", "r", "i",
        "a", "b", "l", "e">>),
       LitI(<<"e", "n", "v">>) \o AnyStar \o LitI(<<"n", "o", "t">>),
       LitI(<<"e", "n", "v">>) \o AnyStar \o LitI(<<"m", "i", "s", "s", "i", "n", "g">>),
       LitI(<<"e", "n", "v">>) \o AnyStar \o LitI(<<"u", "n", "d", "e", "f", "i", "n", "e", "d">>)>>,
      "env", "error", 850, 1),
    ParseRule("econnrefused",
      <<Lit(<<"E", "C", "O", "N", "N", "R", "E", "F", "U", "S", "E", "D">>), Lit(<<"e", "c", "o", "n", "n", "r", "e", "f", "u", "s", "e", "d">>)>>,
      "network", "error", 900, 0),
    ParseRule("timeout",
      <<LitI(<<"t", "i", "m", "e", "o", "u", "t">>), LitI(<<"t", "i", "m", "e", "d", " ", "o", "u", "t">>),
       LitI(<<"E", "T", "I", "M", "E", "D", "O", "U", "T">>)>>,
      "timeout", "warning", 850, 0),
    ParseRule("deploy-failed",
      <<LitI(<<"D", "e", "p", "l", "o", "y">>) \o Plus(Space) \o LitI(<<"f", "a", "i", "l", "e", "d">>),
       LitI(<<"D", "e", "p", "l", "o", "y">>) \o Plus(Space) \o LitI(<<"e", "r", "r", "o", "r">>),
       LitI(<<"D", "e", "p", "l", "o", "y", "m", "e", "n", "t">>) \o Plus(Space) \o LitI(<<"f", "a", "i", "l", "e", "d">>),
       LitI(<<"D", "e", "p", "l", "o", "y", "m", "e", "n", "t">>) \o Plus(Space) \o LitI(<<"e", "r", "r", "o", "r">>)>>,
      "deploy", "critical", 900, 0),
    ParseRule("exit-code-error",
      <<Lit(<<"e", "x", "i", "t", " ", "c", "o", "d", "e", " ">>) \o Plus(Digit),
       Lit(<<"e", "x", "i", "t", "e", "d", " ", "w", "i", "t", "h", " ">>) \o Plus(Digit)>>,
      "unknown", "error", 750, 1),
    ParseRule("generic-error",
      <<LitI(<<"E", "r", "r", "o", "r", ":">>), LitI(<<"e", "r", "r", "o", "r", ":">>)>>,
      "unknown", "error", 600, 0)>>

\* no rule
NoRule == ParseRule("", <<>>, "", "", 0, 0)

\* String.prototype.trim
Trim(chars) ==
  LET inked == {i \in DOMAIN chars : chars[i] \notin Space}
  IN IF inked = {} THEN <<>> ELSE SubSeq(chars, SetMin(inked), SetMax(inked))

\* the first rule whose pattern the line matches
RECURSIVE FirstRule(_, _)
FirstRule(line, rules) ==
  IF rules = <<>> THEN NoRule
  ELSE IF Test(Head(rules).pattern, line) THEN Head(rules)
  ELSE FirstRule(line, Tail(rules))

\* undefined for stackTrace
NoTrace == <<"undefined">>

\* CILogParser.extractStackTrace(lines, errorLine)
LooksLikeTrace(trace) ==
  IF Includes(trace, <<"a", "t", " ">>)
       \/ Includes(trace, <<"E", "r", "r", "o", "r", ":">>)
       \/ Includes(trace, <<"s", "t", "a", "c", "k">>)
  THEN trace
  ELSE NoTrace

ExtractStackTrace(lines, errorLine) ==
  LooksLikeTrace(JoinLines(Slice(lines, Max(0, errorLine - 5),
                                 Min(Len(lines), errorLine + 15))))

FailureEvent(rule, lines, i) ==
  [type |-> rule.failureType, severity |-> rule.severity,
   message |-> Trim(lines[i + 1]), lineNumber |-> i + 1,
   contextKeys |-> rule.contextKeys, stackTrace |-> ExtractStackTrace(lines, i)]

NoEvent ==
  [type |-> "", severity |-> "", message |-> <<>>, lineNumber |-> 0,
   contextKeys |-> 0, stackTrace |-> NoTrace]

\* CILogParser.detectFailures(log)
RECURSIVE DetectFrom(_, _, _)
EventOf(rule, lines, i) ==
  IF rule = NoRule THEN <<>> ELSE <<FailureEvent(rule, lines, i)>>

DetectFrom(lines, rules, i) ==
  IF i >= Len(lines) THEN <<>>
  ELSE EventOf(FirstRule(lines[i + 1], rules), lines, i)
         \o DetectFrom(lines, rules, i + 1)

DetectFailures(lines, rules) == DetectFrom(lines, rules, 0)

SeverityOrder(severity) ==
  CASE severity = "critical" -> 0
    [] severity = "error" -> 1
    [] severity = "warning" -> 2
    [] OTHER -> 3

TypeOrder(type) ==
  CASE type = "auth" -> 0
    [] type = "build" -> 1
    [] type = "deploy" -> 2
    [] type = "test" -> 3
    [] OTHER -> 10

\* the comparator of selectPrimaryFailure
CompareEvents(a, b) ==
  IF SeverityOrder(a.severity) # SeverityOrder(b.severity)
  THEN SeverityOrder(a.severity) - SeverityOrder(b.severity)
  ELSE TypeOrder(a.type) - TypeOrder(b.type)

\* e put behind the events of sorted that do not come after it
RECURSIVE InsertEvent(_, _)
InsertEvent(e, sorted) ==
  IF sorted = <<>> THEN <<e>>
  ELSE IF CompareEvents(Head(sorted), e) <= 0
  THEN <<Head(sorted)>> \o InsertEvent(e, Tail(sorted))
  ELSE <<e>> \o sorted

\* Array.prototype.sort with the comparator: stable, and in place
RECURSIVE SortEvents(_)
SortEvents(events) ==
  IF events = <<>> THEN <<>>
  ELSE InsertEvent(events[Len(events)], SortEvents(SubSeq(events, 1, Len(events) - 1)))

\* CILogParser.selectPrimaryFailure(events): the array as the sort leaves it
\* and the event returned
Selected(sorted) == [events |-> sorted, primary |-> sorted[1]]

SelectPrimaryFailure(events) == Selected(SortEvents(events))

\* the first rule that matches the message and has the type
RECURSIVE FindRule(_, _)
FindRule(event, rules) ==
  IF rules = <<>> THEN NoRule
  ELSE IF Test(Head(rules).pattern, event.message)
            /\ Head(rules).failureType = event.type
  THEN Head(rules)
  ELSE FindRule(event, Tail(rules))

\* CILogParser.findMatchedRule(event)
FindMatchedRule(event, rules) == FindRule(event, rules)

SeverityWeight(severity) ==
  CASE severity = "info" -> 400
    [] severity = "warning" -> 650
    [] severity = "error" -> 850
    [] severity = "critical" -> 950

CertaintyByType(type) ==
  CASE type = "auth" -> 950
    [] type = "build" -> 900
    [] type = "test" -> 850
    [] type = "timeout" -> 800
    [] type = "env" -> 920
    [] type = "deploy" -> 880
    [] type = "lint" -> 750
    [] type = "network" -> 700
    [] type = "unknown" -> 300

\* Math.round(score * 100) / 100
RoundHundredths(score) ==
  DblDivInt(DblFromInt(MathRound(DblTimesInt(score, 100))), 100)

\* the weights of the five factors of ConfidenceScorer.scoreFailure
FactorWeights(event, matchedRule) ==
  <<IF matchedRule # NoRule THEN Thousandths(matchedRule.confidenceModifier)
    ELSE Thousandths(500),
    Thousandths(SeverityWeight(event.severity)),
    DblMin(DblTimesInt(Thousandths(100), event.contextKeys), Thousandths(300)),
    Thousandths(CertaintyByType(event.type)),
    IF event.stackTrace # NoTrace /\ Len(event.stackTrace) > 50
    THEN Thousandths(200) ELSE DblZero>>

\* factors.reduce((sum, f) => sum + f.weight, 0)
TotalWeight(w) ==
  DblAdd(DblAdd(DblAdd(DblAdd(DblAdd(DblZero, w[1]), w[2]), w[3]), w[4]), w[5])

\* the metrics returned for the score before it is rounded
Metrics(w, score) ==
  [score |-> RoundHundredths(score),
   weights |-> w,
   suggestedAction |-> IF DblCmp(score, Thousandths(900)) >= 0 THEN "auto-fix"
                       ELSE IF DblCmp(score, Thousandths(600)) < 0 THEN "escalate"
                       ELSE "manual-review"]

MetricsOf(w) == Metrics(w, DblMin(DblDivInt(TotalWeight(w), Len(w)), DblOne))

\* ConfidenceScorer.scoreFailure(event, matchedRule)
ScoreFailure(event, matchedRule) == MetricsOf(FactorWeights(event, matchedRule))

NoConfidence == [score |-> DblZero, weights |-> <<>>, suggestedAction |-> ""]

\* the default boostAmount and the cap of the boost, in thousandths
DefaultBoostAmount == 50
MaxBoost == 200

\* ConfidenceScorer.withContextBoost(metrics, contextSignals, boostAmount)
\* for signalsMatched true signals and a boostAmount in thousandths
WithContextBoost(metrics, signalsMatched, boostAmount) ==
  [metrics EXCEPT !.score =
     DblMin(DblAdd(metrics.score,
                   DblMin(DblTimesInt(Thousandths(boostAmount), signalsMatched),
                          Thousandths(MaxBoost))),
            DblOne)]

MaxLogSize == 10485760

\* what a call of parse leaves: error is the message of what it threw, ""
\* when it returned; the other fields are the locals of parse at that point,
\* which are the fields of the analysis when it returned
NoAnalysis ==
  [error |-> "", processedLog |-> <<>>, failureEvents |-> <<>>,
   primaryFailure |-> NoEvent, confidence |-> NoConfidence]

Thrown(message) == [NoAnalysis EXCEPT !.error = message]

\* the name uuidv4 is bound to the v4 of the module crypto, which has none:
\* the call of it throws
UuidV4Error == "TypeError: (0 , crypto_1.v4) is not a function"

\* CILogParser.parse(rawLog) with the rules of the parser.  Detection,
\* selection and scoring are done when the id of the analysis is asked for,
\* and that throws
Analysis(processedLog, selected, rules) ==
  [error |-> UuidV4Error, processedLog |-> processedLog,
   failureEvents |-> selected.events,
   primaryFailure |-> selected.primary,
   confidence |-> ScoreFailure(selected.primary,
                               FindMatchedRule(selected.primary, rules))]

ParseEvents(processedLog, failureEvents, rules) ==
  IF failureEvents = <<>> THEN Thrown("No failures detected in log")
  ELSE Analysis(processedLog, SelectPrimaryFailure(failureEvents), rules)

ParseProcessed(processedLog, rules) ==
  ParseEvents(processedLog, DetectFailures(processedLog, rules), rules)

ParseChars(rawLog, chars, headLines, tailLines, rules) ==
  IF Trim(chars) = <<>> THEN Thrown("Raw log is empty")
  ELSE IF Len(chars) > MaxLogSize THEN Thrown("Log size")
  ELSE ParseProcessed(Process(rawLog, headLines, tailLines).processedLog, rules)

Parse(rawLog, headLines, tailLines, rules) ==
  ParseChars(rawLog, JoinLines(rawLog), headLines, tailLines, rules)

\* ---- LogParserAdapter
\* LogParserAdapter.mapFailureType(type)
MapFailureType(type) ==
  CASE type \in {"build", "test", "lint", "deploy", "auth"} -> type
    [] type = "env" -> "build"
    [] type = "network" -> "deploy"
    [] OTHER -> "unknown"

\* LogParserAdapter.getSuggestedCommand(analysis), "" for undefined
GetSuggestedCommand(analysis) ==
  IF analysis.primaryFailure.type = "test" THEN "npm test"
  ELSE IF analysis.primaryFailure.type = "build" THEN "npm run build"
  ELSE ""

\* LogParserAdapter.convertToLegacyFormat(analysis)
ConvertToLegacyFormat(analysis) ==
  [failureSnippet |->
     Slice(analysis.processedLog,
           Max(0, analysis.primaryFailure.lineNumber - LINES_BEFORE),
           Min(Len(analysis.processedLog),
               analysis.primaryFailure.lineNumber + LINES_AFTER)),
   detectedErrorType |-> MapFailureType(analysis.primaryFailure.type),
   suggestedVerificationCommand |-> GetSuggestedCommand(analysis)]

FallbackErrorPattern ==
  <<LitI(<<"e", "r", "r", "o", "r">>), LitI(<<"f", "a", "i", "l", "e", "d">>),
    LitI(<<"f", "a", "t", "a", "l">>)>>

FallbackBuildPattern ==
  <<LitI(<<"n", "p", "m">>), LitI(<<"b", "u", "i", "l", "d">>),
    LitI(<<"c", "o", "m", "p", "i", "l", "e">>)>>

FallbackTestPattern ==
  <<LitI(<<"t", "e", "s", "t">>), LitI(<<"f", "a", "i", "l", "e", "d">>)>>

FallbackAuthPattern ==
  <<LitI(<<"a", "u", "t", "h">>),
    LitI(<<"p", "e", "r", "m", "i", "s", "s", "i", "o", "n">>),
    LitI(<<"4", "0", "1">>), LitI(<<"4", "0", "3">>)>>

FallbackLintPattern ==
  <<LitI(<<"l", "i", "n", "t">>), LitI(<<"e", "r", "r", "o", "r", " ", "T", "S">>)>>

\* LogParserAdapter.fallbackParse(rawLog)
FallbackType(failureSnippet) ==
  IF Test(FallbackBuildPattern, failureSnippet) THEN "build"
  ELSE IF Test(FallbackTestPattern, failureSnippet) THEN "test"
  ELSE IF Test(FallbackAuthPattern, failureSnippet) THEN "auth"
  ELSE IF Test(FallbackLintPattern, failureSnippet) THEN "lint"
  ELSE "unknown"

FallbackSnippet(snippetLines) ==
  [failureSnippet |-> snippetLines,
   detectedErrorType |-> FallbackType(JoinLines(snippetLines)),
   suggestedVerificationCommand |-> "npm test"]

FallbackAt(rawLog, errorIndex) ==
  FallbackSnippet(Slice(rawLog, Max(0, errorIndex - LINES_BEFORE),
                        Min(Len(rawLog), errorIndex + LINES_AFTER)))

FirstOr(hits, last) == IF hits = {} THEN last ELSE SetMin(hits)

FallbackParse(rawLog) ==
  FallbackAt(rawLog,
             FirstOr({i \in 0 .. (Len(rawLog) - 1) :
                        Test(FallbackErrorPattern, rawLog[i + 1])},
                     Len(rawLog) - 1))

NoLegacyAnalysis ==
  [failureSnippet |-> <<>>, detectedErrorType |-> "",
   suggestedVerificationCommand |-> ""]

\* LogParserAdapter.parse(rawLog): the adapter's parser has the default
\* configuration and the default rules
Adapted(rawLog, analysis) ==
  IF analysis.error = "" THEN ConvertToLegacyFormat(analysis)
  ELSE FallbackParse(rawLog)

AdapterParse(rawLog) ==
  Adapted(rawLog, Parse(rawLog, DefaultHeadLines, DefaultTailLines, DEFAULT_RULES))

\* ---- one log on its way through the parser
\* a call of the scorer: its arguments and the metrics it returned
NoScoring == [event |-> NoEvent, rule |-> NoRule, metrics |-> NoConfidence]

NoPrune == [pruned |-> <<>>, prunedLines |-> 0, totalLines |-> 0]

\* raw is the log as it came, text the log as it is now; before and hits
\* tell what the last redaction found, passes how many there were
StartLog(raw, headLines, tailLines) ==
  [status |-> "raw", raw |-> raw, headLines |-> headLines,
   tailLines |-> tailLines, text |-> raw, before |-> raw, hits |-> 0,
   passes |-> 0, prune |-> NoPrune, workflowContent |-> Null,
   prDiff |-> Null, config |-> DefaultConfig, outbound |-> <<>>,
   customRules |-> <<>>, analysis |-> NoAnalysis, legacy |-> NoLegacyAnalysis,
   scoring |-> NoScoring]

NoLog ==
  [status |-> "none", raw |-> <<>>, headLines |-> DefaultHeadLines,
   tailLines |-> DefaultTailLines, text |-> <<>>, before |-> <<>>, hits |-> 0,
   passes |-> 0, prune |-> NoPrune, workflowContent |-> Null,
   prDiff |-> Null, config |-> DefaultConfig, outbound |-> <<>>,
   customRules |-> <<>>, analysis |-> NoAnalysis, legacy |-> NoLegacyAnalysis,
   scoring |-> NoScoring]

\* LogPreprocessor.redact(text)
LogRedacted(l) ==
  LET r == Redact(JoinLines(l.text))
  IN [l EXCEPT !.status = "redacted", !.before = l.text,
               !.text = SplitLines(r.processed), !.hits = r.secretsCount,
               !.passes = @ + 1]

\* LogPreprocessor.prune(text, headLines, tailLines)
LogPruned(l) ==
  LET r == Prune(l.text, l.headLines, l.tailLines)
  IN [l EXCEPT !.status = "pruned", !.text = r.pruned, !.prune = r]

\* CILogParser.parse(rawLog) of a parser made with the custom rules
ParsedAs(l, analysis) ==
  [l EXCEPT !.status = IF analysis.error = "" THEN "parsed" ELSE "threw",
            !.analysis = analysis]

LogParsed(l) ==
  ParsedAs(l, Parse(l.raw, l.headLines, l.tailLines, DEFAULT_RULES \o l.customRules))

\* LogParserAdapter.parse(rawLog)
LogAdapted(l) == [l EXCEPT !.status = "adapted", !.legacy = AdapterParse(l.raw)]

\* ConfidenceScorer.scoreFailure(event, matchedRule), called on its own
LogScored(l, event, matchedRule) ==
  [l EXCEPT !.status = "scored",
            !.scoring = [event |-> event, rule |-> matchedRule,
                         metrics |-> ScoreFailure(event, matchedRule)]]

\* ConfidenceScorer.withContextBoost on the metrics scoreFailure returned
LogBoosted(l, signalsMatched, boostAmount) ==
  [l EXCEPT !.status = "boosted",
            !.scoring.metrics = WithContextBoost(@, signalsMatched, boostAmount)]

\* ---- MultiAgentOrchestrator.runFullPipeline
NotAvailable == <<"N", "/", "A">>

\* value || "N/A"
OrNotAvailable(chars) == IF chars = Null \/ chars = <<>> THEN NotAvailable ELSE chars

\* the artifacts AIProvider.analyzeFailure puts into the request to the
\* backend; none when the call throws before the request
RequestArtifacts(logSnippet, workflowContent, config, prDiff) ==
  IF config.provider = "Ollama" THEN <<logSnippet>>
  ELSE IF config.provider = "Mock" THEN <<>>
  ELSE IF ~config.hasApiKey THEN <<>>
  ELSE <<OrNotAvailable(workflowContent), OrNotAvailable(prDiff), logSnippet>>

\* runFullPipeline up to the request of analyzeFailure: the log is parsed,
\* the request leaves the host or the call throws
SentWith(l, failureSnippet, out) ==
  [l EXCEPT !.status = IF out = <<>> THEN "threw" ELSE "sent",
            !.text = failureSnippet,
            !.outbound = out]

SentAfter(l, logAnalysis) ==
  SentWith([l EXCEPT !.legacy = logAnalysis], logAnalysis.failureSnippet,
           RequestArtifacts(JoinLines(logAnalysis.failureSnippet),
                            l.workflowContent, l.config, l.prDiff))

PipelineSent(l) == SentAfter(l, LegacyParse(l.raw))

\* ------------------------------------------------------------ audit logger
\* the retention bound of the logger, AuditLogger.maxEntries
MaxEntries == 2
\* journal operations of one behaviour, and the days the clock may advance
MaxAuditOps == 4
MaxDays == 2
DefaultOlderThanDays == 30

\* an entry as log, logFailure and logWarning make it: the timestamp is a Date
AuditEntry(id, now, status) ==
  [id |-> id, timestamp |-> [kind |-> "Date", day |-> now], status |-> status]

\* JSON.stringify(entry): a Date becomes its ISO string
Stringify(entry) == [entry EXCEPT !.timestamp.kind = "string"]

\* JSON.parse(line): the timestamp stays a string
ParseLine(line) == line

\* new Date(e.timestamp), as a day
DateOf(timestamp) == timestamp.day

\* entries.map(e => JSON.stringify(e))
StringifyAll(entries) == [i \in DOMAIN entries |-> Stringify(entries[i])]

\* array.slice(-n) for n > 0
LastN(seq, n) == SubSeq(seq, Max(Len(seq) - n, 0) + 1, Len(seq))

\* array.filter(keep)
RECURSIVE FilterNewer(_, _)
FilterNewer(entries, cutoff) ==
  IF entries = <<>> THEN <<>>
  ELSE (IF DateOf(Head(entries).timestamp) > cutoff THEN <<Head(entries)>> ELSE <<>>)
         \o FilterNewer(Tail(entries), cutoff)

\* no logger in the process; file is the non-blank lines of audit.log, none
\* when the file is missing
NoAudit ==
  [status |-> "none", entries |-> <<>>, file |-> <<>>, now |-> 0, ops |-> 0,
   last |-> "none"]

\* AuditLogger.loadExistingLogs()
LoadExistingLogs(a) ==
  [i \in DOMAIN LastN(a.file, MaxEntries) |->
     ParseLine(LastN(a.file, MaxEntries)[i])]

\* new AuditLogger(logDir), by getInstance
Constructed(a) ==
  [a EXCEPT !.status = "live", !.entries = LoadExistingLogs(a),
            !.last = "construct"]

\* AuditLogger.persistLog(entry): the line is appended to the file
PersistLog(file, entry) == Append(file, Stringify(entry))

\* AuditLogger.rewriteLogFile()
RewriteLogFile(entries) == StringifyAll(entries)

\* the trim at the end of AuditLogger.log()
Maintained(a) ==
  IF Len(a.entries) > MaxEntries
  THEN [a EXCEPT !.entries = LastN(a.entries, MaxEntries),
                 !.file = RewriteLogFile(LastN(a.entries, MaxEntries))]
  ELSE a

\* this.entries.push(entry); this.persistLog(entry)
Pushed(a, entry, op) ==
  [a EXCEPT !.entries = Append(a.entries, entry),
            !.file = PersistLog(a.file, entry),
            !.ops = a.ops + 1, !.last = op]

\* AuditLogger.log(...)
Logged(a) == Maintained(Pushed(a, AuditEntry(a.ops + 1, a.now, "success"), "log"))

\* AuditLogger.logFailure(...)
LoggedFailure(a) == Pushed(a, AuditEntry(a.ops + 1, a.now, "failure"), "logFailure")

\* AuditLogger.logWarning(...)
LoggedWarning(a) == Pushed(a, AuditEntry(a.ops + 1, a.now, "warning"), "logWarning")

Cleared(a, kept) ==
  [a EXCEPT !.entries = kept,
            !.file = IF Len(kept) < Len(a.entries) THEN RewriteLogFile(kept)
                     ELSE a.file,
            !.ops = a.ops + 1, !.last = "clearOldLogs"]

\* AuditLogger.clearOldLogs(olderThanDays)
ClearedOldLogs(a, olderThanDays) ==
  Cleared(a, FilterNewer(a.entries, a.now - olderThanDays))

\* ------------------------------------------------------------ specification
NoRun == [component |-> "none", ok |-> TRUE, detail |-> <<>>]
NoDecision == Decision("none", 0, "")

GateConfigs == {GateConfig(a, s, q) : a \in BOOLEAN, s \in BOOLEAN, q \in BOOLEAN}
Scores == {0, 1, 29, 30, 31, 59, 60, 61, 89, 90, 91, 99, 100}
CleanValidation == [filename |-> "README.md", errors |-> <<>>, warnings |-> <<>>]
FailedValidation ==
  [filename |-> "src/cache.ts", errors |-> <<"Mismatched braces">>, warnings |-> <<>>]
GateValidations == SUBSET {CleanValidation, FailedValidation}
GatePatchSets ==
  {<<>>} \cup {<<ModifyPatch(f, "x", "y")>> : f \in GateFiles}
         \cup {<<ModifyPatch("README.md", "x", "y"), CreatePatch(f, "y")>> : f \in GateFiles}
GateInputs ==
  [config : GateConfigs, confidence : Scores, validations : GateValidations,
   patches : GatePatchSets, isCriticalFailure : BOOLEAN]
NoGateInput ==
  [config |-> DefaultGateConfig, confidence |-> 0, validations |-> {},
   patches |-> <<>>, isCriticalFailure |-> FALSE]

\* the applicator's state before any FixApplicator is constructed: a new
\* state directory
ApplicatorIdle ==
  /\ recordFiles = NoMap
  /\ backupBlobs = NoMap
  /\ auditEntries = <<>>
  /\ pc = [p \in Procs |-> "unbuilt"]
  /\ call = [p \in Procs |-> NoCall]
  /\ result = [p \in Procs |-> NoResult]
  /\ applicationRecords = [p \in Procs |-> NoMap]

AgentsIdle ==
  /\ retry = NoRetry
  /\ pipe = NoPipe
  /\ stream = NoStream

ToolsIdle ==
  /\ diff = NoDiff
  /\ log = NoLog
  /\ audit = NoAudit

OthersIdle ==
  /\ run = NoRun
  /\ gateIn = NoGateInput
  /\ gateOut = NoDecision
  /\ AgentsIdle
  /\ ToolsIdle

\* one applicator on a seeded working tree
Init ==
  /\ fs \in InitialTrees
  /\ ApplicatorIdle
  /\ OthersIdle

SeqPatchSets == PatchSets(MaxPatches)

DoConstruct == Construct("p1") /\ UNCHANGED <<run, gateIn, gateOut, retry, pipe, stream, diff, log, audit>>

DoCall ==
  /\ pc["p1"] = "new"
  /\ \E patches \in SeqPatchSets, action \in FixActions,
        autoApply \in BOOLEAN, dryRunFirst \in BOOLEAN :
       Call("p1", patches, [action |-> action], autoApply, dryRunFirst)
  /\ UNCHANGED <<run, gateIn, gateOut, retry, pipe, stream, diff, log, audit>>

DoApplyNext == ApplyNext("p1") /\ UNCHANGED <<run, gateIn, gateOut, retry, pipe, stream, diff, log, audit>>

DoRecord == Record("p1") /\ UNCHANGED <<run, gateIn, gateOut, retry, pipe, stream, diff, log, audit>>

DoRollback ==
  /\ \E id \in AppIds : Rollback("p1", id)
  /\ UNCHANGED <<run, gateIn, gateOut, retry, pipe, stream, diff, log, audit>>

Next == DoConstruct \/ DoCall \/ DoApplyNext \/ DoRecord \/ DoRollback

Spec == Init /\ [][Next]_vars

\* ---- two applicator processes on one working-tree root
ConcPatchSets == PatchSets(ConcMaxPatches)

ConcConstruct(p) == Construct(p) /\ UNCHANGED <<run, gateIn, gateOut, retry, pipe, stream, diff, log, audit>>

ConcCall(p) ==
  /\ pc[p] = "new"
  /\ \E patches \in ConcPatchSets, dryRunFirst \in BOOLEAN :
       Call(p, patches, [action |-> "auto-apply"], FALSE, dryRunFirst)
  /\ UNCHANGED <<run, gateIn, gateOut, retry, pipe, stream, diff, log, audit>>

ConcApplyNext(p) == ApplyNext(p) /\ UNCHANGED <<run, gateIn, gateOut, retry, pipe, stream, diff, log, audit>>

ConcRecord(p) == Record(p) /\ UNCHANGED <<run, gateIn, gateOut, retry, pipe, stream, diff, log, audit>>

ConcRollback(p) ==
  /\ \E id \in AppIds : Rollback(p, id)
  /\ UNCHANGED <<run, gateIn, gateOut, retry, pipe, stream, diff, log, audit>>

NextConc ==
  \E p \in Procs : ConcConstruct(p) \/ ConcCall(p) \/ ConcApplyNext(p) \/ ConcRecord(p) \/ ConcRollback(p)

SpecConc == Init /\ [][NextConc]_vars

\* ---- one run of a component that is not the applicator, on a working tree
RunDiffEngine ==
  /\ run = NoRun
  /\ \E patches \in SeqPatchSets, dryRun \in BOOLEAN :
       LET r == DiffEngineApplyPatches(fs, patches, dryRun)
       IN /\ fs' = r.tree
          /\ run' = [component |-> "diff-engine", ok |-> r.success, detail |-> r.errors]
  /\ UNCHANGED <<recordFiles, backupBlobs, auditEntries, pc, call, result,
                 applicationRecords, gateIn, gateOut, retry, pipe, stream, diff, log, audit>>

RunDryRun ==
  /\ run = NoRun
  /\ \E patches \in SeqPatchSets, syntax \in BOOLEAN, conflicts \in BOOLEAN :
       LET r == SimulatePatches(fs, patches,
                  [validateSyntax |-> syntax, checkConflicts |-> conflicts,
                   estimatePerformance |-> FALSE])
       IN run' = [component |-> "dry-run", ok |-> r.success, detail |-> r.steps]
  /\ UNCHANGED <<applicatorVars, gateIn, gateOut, retry, pipe, stream, diff, log, audit>>

RunValidator ==
  /\ run = NoRun
  /\ \E patches \in SeqPatchSets :
       LET v == ValidateFixes(ModifiedFiles(fs, patches, NoFiles))
       IN run' = [component |-> "validator", ok |-> ~HasErrors(v), detail |-> v]
  /\ UNCHANGED <<applicatorVars, gateIn, gateOut, retry, pipe, stream, diff, log, audit>>

RunGate ==
  /\ run = NoRun
  /\ \E confidence \in Scores, patches \in GatePatchSets :
       LET d == EvaluateFix(DefaultGateConfig, confidence, {}, patches, FALSE)
       IN run' = [component |-> "gate", ok |-> d.action = "auto-apply", detail |-> d]
  /\ UNCHANGED <<applicatorVars, gateIn, gateOut, retry, pipe, stream, diff, log, audit>>

NextFrame == RunDiffEngine \/ RunDryRun \/ RunValidator \/ RunGate

SpecFrame == Init /\ [][NextFrame]_vars

\* ---- the confidence gate on drawn arguments
InitGate ==
  /\ fs = [f \in Files |-> Absent]
  /\ ApplicatorIdle
  /\ run = NoRun
  /\ gateIn \in GateInputs
  /\ gateOut = NoDecision
  /\ AgentsIdle
  /\ ToolsIdle

GateEvaluate ==
  /\ gateOut = NoDecision
  /\ gateOut' = EvaluateFix(gateIn.config, gateIn.confidence, gateIn.validations,
                            gateIn.patches, gateIn.isCriticalFailure)
  /\ UNCHANGED <<applicatorVars, run, gateIn, retry, pipe, stream, diff, log, audit>>

NextGate == GateEvaluate

SpecGate == InitGate /\ [][NextGate]_vars

\* ---- one call of a gate whose thresholds are configured
\* thresholds as <<autoApply, manualReview, escalate>>: the defaults, auto-apply
\* below manual-review, the three in reverse order, the three equal
ThresholdSets ==
  {<<DefaultAutoApplyThreshold, DefaultManualReviewThreshold, DefaultEscalateThreshold>>,
   <<50, 60, 30>>, <<30, 60, 90>>, <<60, 60, 60>>}

ConfiguredGates ==
  {WithThresholds(c, t[1], t[2], t[3]) : c \in GateConfigs, t \in ThresholdSets}

InitThresholds ==
  /\ fs = [f \in Files |-> Absent]
  /\ ApplicatorIdle
  /\ run = NoRun
  /\ \E c \in ConfiguredGates, i \in GateInputs : gateIn = [i EXCEPT !.config = c]
  /\ gateOut = NoDecision
  /\ AgentsIdle
  /\ ToolsIdle

ThresholdsEvaluate ==
  /\ gateOut = NoDecision
  /\ gateOut' = EvaluateFix(gateIn.config, gateIn.confidence, gateIn.validations,
                            gateIn.patches, gateIn.isCriticalFailure)
  /\ UNCHANGED <<applicatorVars, run, gateIn, retry, pipe, stream, diff, log, audit>>

NextThresholds == ThresholdsEvaluate

SpecThresholds == InitThresholds /\ [][NextThresholds]_vars

\* ---- one call of the retry handler

InitRetry ==
  /\ fs = [f \in Files |-> Absent]
  /\ ApplicatorIdle
  /\ OthersIdle

\* RetryHandler.retry(operation, config) or retryUntilValid(operation, schema,
\* config, correctionPrompt) is called: the body runs up to its first await
RetryInvoke ==
  /\ retry.status = "none"
  /\ \E mode \in {"retry", "retryUntilValid"},
        config \in {DefaultRetryConfig, PipelineRetryConfig},
        hasCorrection \in BOOLEAN :
       retry' = CallOperation(
                  StartRetry(mode, config, hasCorrection /\ mode = "retryUntilValid"))
  /\ UNCHANGED <<applicatorVars, run, gateIn, gateOut, pipe, stream, diff, log, audit>>

\* the race of the awaited attempt ends: the operation resolved or rejected,
\* or the timer rejected first
RetryRaceSettle ==
  /\ retry.status = "awaiting"
  /\ \E outcome \in (IF retry.mode = "retry" THEN PlainOutcomes ELSE AttemptOutcomes) :
       retry' = RaceSettled(retry, outcome)
  /\ UNCHANGED <<applicatorVars, run, gateIn, gateOut, pipe, stream, diff, log, audit>>

\* the setTimeout of the wait fires
RetryDelayElapsed ==
  /\ retry.status = "waiting"
  /\ retry' = DelayElapsed(retry)
  /\ UNCHANGED <<applicatorVars, run, gateIn, gateOut, pipe, stream, diff, log, audit>>

\* the backend call of an attempt that lost the race with the timeout ends
RetryLateSettle ==
  /\ \E a \in retry.pending :
       /\ ~(retry.status = "awaiting" /\ a = retry.attempt)
       /\ retry' = LateSettled(retry, a)
  /\ UNCHANGED <<applicatorVars, run, gateIn, gateOut, pipe, stream, diff, log, audit>>

NextRetry == RetryInvoke \/ RetryRaceSettle \/ RetryDelayElapsed \/ RetryLateSettle

SpecRetry == InitRetry /\ [][NextRetry]_vars

\* ---- one run of the multi-agent pipeline
BackendPlans == SeqsUpTo(AttemptOutcomes, MaxPlan)

InitPipe ==
  /\ fs = [f \in Files |-> Absent]
  /\ ApplicatorIdle
  /\ run = NoRun
  /\ gateIn = NoGateInput
  /\ gateOut = NoDecision
  /\ retry = NoRetry
  /\ \E provider \in {"OpenAI", "Mock"}, enableRetry \in BOOLEAN,
        plan \in BackendPlans :
       pipe = NewPipe(provider, enableRetry, plan)
  /\ stream = NoStream
  /\ ToolsIdle

PipeRun ==
  /\ pipe.status = "ready"
  /\ pipe' = RunMultiAgentAnalysis(pipe)
  /\ UNCHANGED <<applicatorVars, run, gateIn, gateOut, retry, stream, diff, log, audit>>

NextPipe == PipeRun

SpecPipe == InitPipe /\ [][NextPipe]_vars

\* ---- one run of the streaming pipeline and its consumer
StreamConfigs ==
  {[provider |-> "Mock", hasApiKey |-> FALSE],
   [provider |-> "Ollama", hasApiKey |-> FALSE],
   [provider |-> "OpenAI", hasApiKey |-> FALSE],
   [provider |-> "OpenAI", hasApiKey |-> TRUE]}

\* the fields of LogParser.parse(rawLogs) the pipeline reads
StreamLogAnalyses ==
  [suggestedVerificationCommand : {"", "npm test"},
   detectedErrorType : {"test", "build", "unknown"}]

TokenStreams == SeqsUpTo(TokenPool, MaxTokens)

InitStream ==
  /\ fs = [f \in Files |-> Absent]
  /\ ApplicatorIdle
  /\ run = NoRun
  /\ gateIn = NoGateInput
  /\ gateOut = NoDecision
  /\ retry = NoRetry
  /\ pipe = NoPipe
  /\ \E logAnalysis \in StreamLogAnalyses, config \in StreamConfigs,
        tokens \in TokenStreams :
       /\ (config.provider = "OpenAI" /\ config.hasApiKey) \/ tokens = <<>>
       /\ stream = StartStream(logAnalysis, config, tokens)
  /\ ToolsIdle

ConsumerNext ==
  /\ stream.status = "running"
  /\ stream.pulls - Len(stream.emitted) < MaxPending
  /\ stream' = StreamNext(stream)
  /\ UNCHANGED <<applicatorVars, run, gateIn, gateOut, retry, pipe, diff, log, audit>>

GeneratorResume ==
  /\ CanProduce(stream)
  /\ stream' = StreamResume(stream)
  /\ UNCHANGED <<applicatorVars, run, gateIn, gateOut, retry, pipe, diff, log, audit>>

NextStream == ConsumerNext \/ GeneratorResume

SpecStream == InitStream /\ [][NextStream]_vars

\* ---- one patch of the generator, applied and reversed
DiffLines == {"a", "b", "c"}
DiffTexts == (SeqsUpTo(DiffLines, MaxDiffLines) \ {<<>>}) \cup {EmptyText}
DiffContexts == {0, 1, DefaultContext}

InitDiff ==
  /\ fs = [f \in Files |-> Absent]
  /\ ApplicatorIdle
  /\ run = NoRun
  /\ gateIn = NoGateInput
  /\ gateOut = NoDecision
  /\ AgentsIdle
  /\ \E original \in DiffTexts, modified \in DiffTexts, context \in DiffContexts :
       diff = StartDiff(original, modified, context)
  /\ log = NoLog
  /\ audit = NoAudit

DiffApply ==
  /\ diff.status = "generated"
  /\ diff' = DiffApplied(diff)
  /\ UNCHANGED <<applicatorVars, run, gateIn, gateOut, retry, pipe, stream, log, audit>>

DiffReverse ==
  /\ diff.status = "applied"
  /\ diff' = DiffReversed(diff)
  /\ UNCHANGED <<applicatorVars, run, gateIn, gateOut, retry, pipe, stream, log, audit>>

NextDiff == DiffApply \/ DiffReverse

SpecDiff == InitDiff /\ [][NextDiff]_vars

\* ---- one log through the log parser
BasicAuthLine ==
  <<"h", "t", "t", "p", ":", "/", "/", "A", "u", "t", "h", "o", "r", "i",
    "z", "a", "t", "i", "o", "n", ":", "@", " ", "b", ":", "c", "@", "d">>

AwsKeyLine ==
  <<"A", "K", "I", "A", "1", "2", "3", "4", "5", "6", "7", "8", "9", "0",
    "1", "2", "3", "4", "5", "6">>

NpmErrLine ==
  <<"n", "p", "m", " ", "E", "R", "R", "!", " ", "c", "o", "d", "e", " ",
    "E", "4", "0", "3">>

ForbiddenLine ==
  <<"4", "0", "3", " ", "F", "o", "r", "b", "i", "d", "d", "e", "n", " ",
    "-", " ", "P", "U", "T", " ", "h", "t", "t", "p", "s", ":", "/", "/",
    "r", "e", "g", "i", "s", "t", "r", "y", ".", "n", "p", "m", "j", "s",
    ".", "o", "r", "g", "/", "p", "k", "g">>

TimeoutLine ==
  <<"w", "a", "r", "n", "i", "n", "g", ":", " ", "t", "i", "m", "e", "o",
    "u", "t">>

ErrorLine ==
  <<"E", "r", "r", "o", "r", ":", " ", "b", "o", "o", "m">>

OkLine ==
  <<"o", "k">>

LogLinePool ==
  {BasicAuthLine, AwsKeyLine, NpmErrLine, ForbiddenLine, TimeoutLine, ErrorLine,
   OkLine}
RawLogs == SeqsUpTo(LogLinePool, MaxLogLines) \ {<<>>}
\* headLines and tailLines of the parser's configuration
HeadTails == {<<0, 1>>, <<1, 1>>, <<DefaultHeadLines, DefaultTailLines>>}

InitLog ==
  /\ fs = [f \in Files |-> Absent]
  /\ ApplicatorIdle
  /\ run = NoRun
  /\ gateIn = NoGateInput
  /\ gateOut = NoDecision
  /\ AgentsIdle
  /\ diff = NoDiff
  /\ audit = NoAudit
  /\ \E raw \in RawLogs, ht \in HeadTails : log = StartLog(raw, ht[1], ht[2])

LogRedact ==
  /\ log.status \in {"raw", "redacted"}
  /\ log.passes < 2
  /\ log' = LogRedacted(log)
  /\ UNCHANGED <<applicatorVars, run, gateIn, gateOut, retry, pipe, stream, diff, audit>>

LogPrune ==
  /\ log.status = "raw"
  /\ log' = LogPruned(log)
  /\ UNCHANGED <<applicatorVars, run, gateIn, gateOut, retry, pipe, stream, diff, audit>>

NextLog == LogRedact \/ LogPrune

SpecLog == InitLog /\ [][NextLog]_vars

\* ---- one run of the full pipeline up to its request to the backend
TimestampedLine ==
  <<"2", "0", "2", "4", "-", "0", "1", "-", "0", "2", "T", "0", "3", ":",
  "0", "4", ":", "0", "5", ".", "6", "7", "8", "Z", " ", "E", "r", "r",
  "o", "r", ":", " ", "a", "@", "b", ".", "c", "o">>

SendLinePool == {AwsKeyLine, NpmErrLine, TimestampedLine, OkLine}
SendLogs == SeqsUpTo(SendLinePool, MaxLogLines) \ {<<>>}

WorkflowText ==
  <<"o", "n", ":", " ", "p", "u", "s", "h">>

KeyInDiff ==
  <<"+", "K", "E", "Y", "=", "A", "K", "I", "A", "1", "2", "3", "4", "5",
  "6", "7", "8", "9", "0", "1", "2", "3", "4", "5", "6">>

WorkflowContents == {Null, WorkflowText}
PrDiffs == {Null, <<>>, KeyInDiff}

InitSend ==
  /\ fs = [f \in Files |-> Absent]
  /\ ApplicatorIdle
  /\ run = NoRun
  /\ gateIn = NoGateInput
  /\ gateOut = NoDecision
  /\ AgentsIdle
  /\ diff = NoDiff
  /\ audit = NoAudit
  /\ \E raw \in SendLogs, w \in WorkflowContents, d \in PrDiffs,
        c \in StreamConfigs :
       log = [StartLog(raw, DefaultHeadLines, DefaultTailLines)
                EXCEPT !.workflowContent = w, !.prDiff = d, !.config = c]

SendAnalyze ==
  /\ log.status = "raw"
  /\ log' = PipelineSent(log)
  /\ UNCHANGED <<applicatorVars, run, gateIn, gateOut, retry, pipe, stream, diff, audit>>

NextSend == SendAnalyze

SpecSend == InitSend /\ [][NextSend]_vars

\* ---- one log through the rule engine, the scorer and the adapter
StackLine ==
  <<"a", "t", " ", "f", "(", ")">>

OkRule == ParseRule("custom-ok", <<Lit(<<"o", "k">>)>>, "unknown", "info", -1000, 0)

ParseLinePool ==
  {NpmErrLine, ForbiddenLine, TimeoutLine, ErrorLine, StackLine, OkLine, <<>>}
ParseLogs == SeqsUpTo(ParseLinePool, MaxLogLines) \ {<<>>}
CustomRuleSets == {<<>>, <<OkRule>>}

\* the events handed to the scorer: scoreFailure reads the type, the
\* severity, the number of context keys and the stack trace of an event
FailureTypes ==
  {"auth", "build", "test", "timeout", "env", "deploy", "lint", "network",
   "unknown"}
Severities == {"info", "warning", "error", "critical"}
MaxContextKeys == 4
LongTrace == [i \in 1 .. 51 |-> "a"]
ScoredTraces == {NoTrace, StackLine, LongTrace}
ScoredEvent(type, severity, contextKeys, stackTrace) ==
  [NoEvent EXCEPT !.type = type, !.severity = severity, !.lineNumber = 1,
                  !.contextKeys = contextKeys, !.stackTrace = stackTrace]
ScoredRules == {DEFAULT_RULES[i] : i \in DOMAIN DEFAULT_RULES} \cup {NoRule, OkRule}

MaxSignals == 5
BoostAmounts == {DefaultBoostAmount, 25}

\* a log that came in, or none: the scorer is called on its own
InitParse ==
  /\ fs = [f \in Files |-> Absent]
  /\ ApplicatorIdle
  /\ run = NoRun
  /\ gateIn = NoGateInput
  /\ gateOut = NoDecision
  /\ AgentsIdle
  /\ diff = NoDiff
  /\ audit = NoAudit
  /\ \/ \E raw \in ParseLogs, rules \in CustomRuleSets :
          log = [StartLog(raw, DefaultHeadLines, DefaultTailLines)
                   EXCEPT !.customRules = rules]
     \/ log = NoLog

LogParse ==
  /\ log.status = "raw"
  /\ log' = LogParsed(log)
  /\ UNCHANGED <<applicatorVars, run, gateIn, gateOut, retry, pipe, stream, diff, audit>>

LogAdapt ==
  /\ log.status = "raw"
  /\ log.customRules = <<>>
  /\ log' = LogAdapted(log)
  /\ UNCHANGED <<applicatorVars, run, gateIn, gateOut, retry, pipe, stream, diff, audit>>

LogScore ==
  /\ log.status = "none"
  /\ \E type \in FailureTypes, severity \in Severities,
        contextKeys \in 0 .. MaxContextKeys, stackTrace \in ScoredTraces,
        matchedRule \in ScoredRules :
       log' = LogScored(log, ScoredEvent(type, severity, contextKeys, stackTrace),
                        matchedRule)
  /\ UNCHANGED <<applicatorVars, run, gateIn, gateOut, retry, pipe, stream, diff, audit>>

LogBoost ==
  /\ log.status = "scored"
  /\ \E signalsMatched \in 0 .. MaxSignals, boostAmount \in BoostAmounts :
       log' = LogBoosted(log, signalsMatched, boostAmount)
  /\ UNCHANGED <<applicatorVars, run, gateIn, gateOut, retry, pipe, stream, diff, audit>>

NextParse == LogParse \/ LogAdapt \/ LogScore \/ LogBoost

SpecParse == InitParse /\ [][NextParse]_vars

\* ---- the audit logger of a process, over restarts of the process
OlderThanDays == {0, 1, DefaultOlderThanDays}

InitAudit ==
  /\ fs = [f \in Files |-> Absent]
  /\ ApplicatorIdle
  /\ run = NoRun
  /\ gateIn = NoGateInput
  /\ gateOut = NoDecision
  /\ AgentsIdle
  /\ diff = NoDiff
  /\ log = NoLog
  /\ audit = NoAudit

AuditFrame ==
  UNCHANGED <<applicatorVars, run, gateIn, gateOut, retry, pipe, stream, diff, log>>

\* AuditLogger.getInstance(logDir), the first call in a process
AuditConstruct ==
  /\ audit.status = "none"
  /\ audit' = Constructed(audit)
  /\ AuditFrame

AuditLog ==
  /\ audit.status = "live"
  /\ audit.ops < MaxAuditOps
  /\ audit' = Logged(audit)
  /\ AuditFrame

AuditLogFailure ==
  /\ audit.status = "live"
  /\ audit.ops < MaxAuditOps
  /\ audit' = LoggedFailure(audit)
  /\ AuditFrame

AuditLogWarning ==
  /\ audit.status = "live"
  /\ audit.ops < MaxAuditOps
  /\ audit' = LoggedWarning(audit)
  /\ AuditFrame

AuditClearOldLogs ==
  /\ audit.status = "live"
  /\ audit.ops < MaxAuditOps
  /\ \E olderThanDays \in OlderThanDays :
       audit' = ClearedOldLogs(audit, olderThanDays)
  /\ AuditFrame

\* a day passes
AuditTick ==
  /\ audit.now < MaxDays
  /\ audit' = [audit EXCEPT !.now = audit.now + 1, !.last = "tick"]
  /\ AuditFrame

\* the process ends: the entries in memory are gone, the file stays
AuditExit ==
  /\ audit.status = "live"
  /\ audit' = [audit EXCEPT !.status = "none", !.entries = <<>>, !.last = "exit"]
  /\ AuditFrame

NextAudit ==
  \/ AuditConstruct
  \/ AuditLog
  \/ AuditLogFailure
  \/ AuditLogWarning
  \/ AuditClearOldLogs
  \/ AuditTick
  \/ AuditExit

SpecAudit == InitAudit /\ [][NextAudit]_vars

\* ------------------------------------------------------------ properties
\* the content hash of a path: a path with no file holds no bytes
DiskHash(content) == IF content = Absent THEN Hash(EmptyText) ELSE Hash(content)

DistinctTargets(appliedPatches) ==
  \A i, j \in DOMAIN appliedPatches :
    appliedPatches[i].filename = appliedPatches[j].filename => i = j

\* the tree a rollback of the record has to leave
RolledBackState(tree, record) ==
  \A i \in DOMAIN record.patches :
    LET ap == record.patches[i]
    IN IF ap.patchContent.isNewFile
       THEN tree[ap.filename] = Absent
       ELSE /\ tree[ap.filename] # Absent
            /\ Hash(tree[ap.filename]) = ap.beforeHash

\* C1: a rollback of an application that applyPatches completed successfully
\* leaves every modified or deleted target with the recorded beforeHash and
\* every created file absent.
C1_RollbackRestores ==
  [][\A p \in Procs : \A id \in DOMAIN applicationRecords[p] :
       ( /\ applicationRecords[p][id].status = "applied"
         /\ applicationRecords'[p][id].status # "applied"
         /\ DistinctTargets(applicationRecords[p][id].patches) )
       => RolledBackState(fs', applicationRecords[p][id])]_vars

\* C2: two applyPatches calls on one root never overlap: while one is
\* between its first and its last step, no other is.
C2_OneAtATime ==
  \A p, q \in Procs : (pc[p] = "apply" /\ pc[q] = "apply") => p = q

\* C3: the step on which a patch fails ends the call: the snapshots are
\* restored, failure is returned and no later patch is attempted.
C3_StopAtFirstFailure ==
  [][\A p \in Procs :
       (pc[p] = "apply" /\ Len(call'[p].errors) > Len(call[p].errors))
       => /\ pc'[p] = "done"
          /\ result'[p].op = "applyPatches"
          /\ ~result'[p].success
          /\ \A f \in DOMAIN call[p].backups : fs'[f] = call[p].backups[f]]_vars

\* C4: a step of applyPatches changes the working tree only if the decision
\* of the call is auto-apply or the call's autoApply option is set.
C4_WritesNeedApproval ==
  [][\A p \in Procs :
       (pc'[p] # pc[p] \/ call'[p] # call[p])
       => \/ fs' = fs
          \/ call[p].decision.action = "auto-apply"
          \/ call[p].autoApply]_vars

C4_Refused ==
  \E p \in Procs :
    /\ pc[p] = "done"
    /\ result[p].op = "applyPatches"
    /\ ~result[p].success
    /\ result[p].errors = <<<<"not allowed", "manual-review">>>>
    /\ \E f \in Files : fs[f] # Absent

\* C5: no run of the diff engine, the dry-run simulator, the validator or the
\* gate changes a file of the working tree.
C5_OnlyApplicatorWrites ==
  [][run' # run => fs' = fs]_vars

\* C6: the beforeHash and afterHash recorded for an applied patch are the
\* hashes of the target's content just before and just after the patch was
\* applied.
C6_HashesOfDisk ==
  [][\A p \in Procs :
       (pc[p] = "apply" /\ Len(call'[p].appliedPatches) > Len(call[p].appliedPatches))
       => LET ap == call'[p].appliedPatches[Len(call'[p].appliedPatches)]
          IN /\ ap.beforeHash = DiskHash(fs[ap.filename])
             /\ ap.afterHash = DiskHash(fs'[ap.filename])]_vars

\* C7: when applyPatches returns after applying every patch, the record it
\* persisted has status applied; when it returns after applying only part of
\* the patches, the persisted record has status partial.
C7_RecordStatus ==
  [][\A p \in Procs :
       (pc[p] = "apply" /\ pc'[p] = "done")
       => LET r == result'[p]
              id == r.applicationId
          IN /\ id \in DOMAIN recordFiles'
             /\ r.success
                  => /\ recordFiles'[id].status = "applied"
                     /\ Len(recordFiles'[id].patches) = Len(call[p].patches)
             /\ (r.applied # <<>> /\ r.errors # <<>>)
                  => recordFiles'[id].status = "partial"]_vars

C7_PartialPersisted ==
  \E p \in Procs :
    /\ pc[p] = "done"
    /\ result[p].op = "applyPatches"
    /\ result[p].applied # <<>>
    /\ result[p].errors # <<>>
    /\ recordFiles[result[p].applicationId].status = "partial"

\* C8: no step removes a backup, and a rollback that follows a rollback of the
\* same application, with nothing in between, leaves the working tree as it
\* found it.
C8_RollbackIdempotent ==
  [][/\ \A k \in DOMAIN backupBlobs :
          k \in DOMAIN backupBlobs' /\ backupBlobs'[k] = backupBlobs[k]
     /\ \A p \in Procs :
          ( /\ result[p].op = "rollback"
            /\ result'[p].op = "rollback"
            /\ result'[p].applicationId = result[p].applicationId
            /\ result[p].applicationId \in DOMAIN applicationRecords[p]
            /\ pc' = pc /\ call' = call )
          => fs' = fs]_vars

C8_RolledBack ==
  \E p \in Procs :
    /\ result[p].op = "rollback"
    /\ result[p].applicationId \in DOMAIN applicationRecords[p]
    /\ applicationRecords[p][result[p].applicationId].patches # <<>>
    /\ applicationRecords[p][result[p].applicationId].status # "applied"

\* C9: once applyPatches has returned, the audit journal holds an entry for
\* the application.
C9_OutcomeJournaled ==
  \A p \in Procs :
    (pc[p] = "done" /\ result[p].op = "applyPatches")
    => \E i \in DOMAIN auditEntries :
         auditEntries[i].resource = result[p].applicationId

\* C10: the gate rejects whenever a validation reports errors.
C10_ErrorsReject ==
  (gateOut # NoDecision /\ HasErrors(gateIn.validations))
  => gateOut.action = "reject"

\* the call gets as far as the comparisons of the score with the thresholds
ThresholdRulesReached(in) ==
  /\ ~(in.config.requiresSecurityReview /\ TouchesSecurityCode(in.patches))
  /\ ~(in.config.requiresPerformanceReview
         /\ TouchesPerformanceCriticalCode(in.patches))
  /\ ~HasErrors(in.validations)

\* C11: when the decision is made by the thresholds, a score equal to the
\* auto-apply threshold takes the auto-apply branch (auto-apply, or
\* manual-review for a critical failure) and a score equal to the
\* manual-review threshold yields manual-review.
C11_ThresholdInclusive ==
  (gateOut # NoDecision /\ ThresholdRulesReached(gateIn))
  => /\ gateIn.confidence = gateIn.config.autoApplyThreshold
          => /\ gateOut.reasoning \in {"high confidence", "critical failure"}
             /\ gateOut.action =
                  IF gateIn.isCriticalFailure /\ ~gateIn.config.allowAutoApplyOnCritical
                  THEN "manual-review" ELSE "auto-apply"
     /\ gateIn.confidence = gateIn.config.manualReviewThreshold
          => /\ gateOut.reasoning = "moderate confidence"
             /\ gateOut.action = "manual-review"

C11_OnAutoApplyThreshold ==
  /\ gateOut.action = "auto-apply"
  /\ gateIn.confidence = gateIn.config.autoApplyThreshold
  /\ gateIn.patches # <<>>

\* C12: a score of 0 yields reject, whatever the patches, the validations and
\* the configuration.
C12_ZeroRejects ==
  (gateOut # NoDecision /\ gateIn.confidence = 0) => gateOut.action = "reject"

\* C13: a call of the retry handler invokes the operation at most maxRetries
\* times (3 by default), and after that many failed attempts it has returned
\* failure.
C13_AtMostNAttempts ==
  retry.status # "none"
  => /\ Len(retry.calls) <= retry.config.maxRetries
     /\ ( /\ Len(retry.outcomes) = retry.config.maxRetries
          /\ retry.outcomes[Len(retry.outcomes)] # "valid" )
        => (retry.status = "returned" /\ ~retry.result.success)

\* a pipeline run has ended
PipeEnded == pipe.status \in {"done", "failed"}

\* the run talks to a backend through the retry handler
PipeRetries == pipe.provider = "OpenAI" /\ pipe.enableRetry

\* how the i-th backend call of the run ends
PlanAt(i) == IF i \in DOMAIN pipe.plan THEN pipe.plan[i] ELSE "valid"

FailedOutcomes == AttemptOutcomes \ {"valid"}

\* C14: a pipeline run whose backend answers the first k calls (k within the
\* retries) with malformed or schema-invalid JSON and every later call with
\* a valid response succeeds, and reports retriesUsed = k for its first agent.
C14_RetriesUsedIsK ==
  \A k \in 0..PipelineMaxRetries :
    ( /\ PipeEnded
      /\ PipeRetries
      /\ Len(pipe.plan) >= k
      /\ \A i \in DOMAIN pipe.plan :
           IF i <= k THEN pipe.plan[i] \in {"json", "schema"}
           ELSE pipe.plan[i] = "valid" )
    => /\ pipe.status = "done"
       /\ pipe.retriesLog # <<>>
       /\ pipe.retriesLog[1] = [agent |-> AgentOrder[1], retriesUsed |-> k]

\* C15: the second backend call of a run carries the correction directive
\* with the violations of the first response when that response failed the
\* schema, and no directive when the first call failed in transport.
C15_DirectiveAfterSchemaFailure ==
  (PipeEnded /\ PipeRetries /\ PlanAt(1) \in {"schema", "transport"})
  => /\ Len(pipe.calls) >= 2
     /\ pipe.calls[2].directive =
          IF PlanAt(1) = "schema" THEN GenerateCorrectionPrompt(Violations)
          ELSE NoDirective

\* the error kind an error stands for
KindOfError(error) ==
  IF error = <<>> THEN "None"
  ELSE CASE \E i \in DOMAIN error :
              error[i] \in {"Schema validation failed for", "Schema validation failed:",
                            "Response is not valid JSON", "Failed to parse JSON response"}
              -> "SchemaViolation"
         [] \E i \in DOMAIN error : error[i] = "Operation timeout after" -> "TimedOut"
         [] \E i \in DOMAIN error : error[i] = "Backend error" -> "BackendUnavailable"
         [] OTHER -> "Unknown"

KindOfOutcome(outcome) ==
  CASE outcome \in {"schema", "json"} -> "SchemaViolation"
    [] outcome = "timeout" -> "TimedOut"
    [] OTHER -> "BackendUnavailable"

\* C16: a pipeline run whose backend fails every attempt of the first agent
\* ends with a failure that tells the cause of the failed attempts (schema
\* violation, backend error, timeout) and with no data of an agent.
C16_FailureTellsCause ==
  ( /\ PipeEnded
    /\ PipeRetries
    /\ \A i \in 1..(PipelineMaxRetries + 1) : PlanAt(i) \in FailedOutcomes )
  => /\ pipe.status = "failed"
     /\ pipe.result.outputs = <<>>
     /\ KindOfError(pipe.result.error) = KindOfOutcome(PlanAt(PipelineMaxRetries + 1))

\* s is an initial part of t
IsPrefixOf(s, t) == Len(s) <= Len(t) /\ SubSeq(t, 1, Len(s)) = s

C18_PartialResult ==
  ( /\ PipeEnded
    /\ PipeRetries
    /\ PlanAt(1) = "valid"
    /\ \A i \in 2..(PipelineMaxRetries + 2) : PlanAt(i) \in FailedOutcomes )
  => /\ pipe.status = "failed"
     /\ Len(pipe.result.outputs) = 1
     /\ pipe.result.outputs[1].agent = AgentOrder[1]

\* C19: a streaming run that has completed has emitted exactly one done chunk,
\* and at no time does a chunk follow a done chunk.
C19_DoneIsTerminal ==
  /\ \A i \in DOMAIN stream.emitted :
       stream.emitted[i].type = "done" => i = Len(stream.emitted)
  /\ stream.status = "completed"
       => Cardinality({i \in DOMAIN stream.emitted :
                         stream.emitted[i].type = "done"}) = 1

RECURSIVE OldSide(_)
OldSide(lines) ==
  IF lines = <<>> THEN <<>>
  ELSE (IF Head(lines).tag # "+" THEN <<Head(lines).text>> ELSE <<>>)
         \o OldSide(Tail(lines))

\* a patch applies to a text when the text holds, from oldStart on, the
\* context and removed lines of every hunk
PatchAppliesTo(patch, text) ==
  \A k \in DOMAIN patch.hunks :
    LET hunk == patch.hunks[k]
        old == OldSide(hunk.lines)
    IN old = <<>> \/ (/\ hunk.oldStart >= 1
                      /\ hunk.oldStart + Len(old) - 1 <= Len(text)
                      /\ old = SubSeq(text, hunk.oldStart, hunk.oldStart + Len(old) - 1))

\* C21: a patch that applies to the original, applied and then reversed, gives
\* the original back line for line.
C21_ReverseRoundTrip ==
  (diff.status = "reversed" /\ PatchAppliesTo(diff.patch, diff.original))
    => diff.text = diff.original

\* C22: every hunk of a generated patch counts its lines: oldLines is the
\* number of context and remove lines, newLines that of context and add lines.
C22_HunkCounts ==
  diff.status # "none" =>
    \A k \in DOMAIN diff.patch.hunks :
      LET hunk == diff.patch.hunks[k]
      IN /\ hunk.oldLines = CountTag(hunk.lines, " ") + CountTag(hunk.lines, "-")
         /\ hunk.newLines = CountTag(hunk.lines, " ") + CountTag(hunk.lines, "+")

\* C23: a log longer than head + tail lines is pruned to its first head
\* lines, one marker line and its last tail lines, and the lines kept and
\* omitted add up to the lines of the log.
C23_PruneExact ==
  (log.status = "pruned" /\ Len(log.raw) > log.headLines + log.tailLines) =>
    /\ log.text = SubSeq(log.raw, 1, log.headLines)
                    \o <<PruneMarker(log.prune.prunedLines)>>
                    \o SubSeq(log.raw, Len(log.raw) - log.tailLines + 1, Len(log.raw))
    /\ log.headLines + log.tailLines + log.prune.prunedLines = log.prune.totalLines

\* C24: a second run of the redactor on the output of the first reports no
\* hit and leaves the text unchanged.
C24_RedactIdempotent ==
  (log.status = "redacted" /\ log.passes = 2) =>
    (log.hits = 0 /\ log.text = log.before)


\* C25: every artifact of a request to the backend (log snippet, workflow
\* configuration, change-set diff) is free of any match of a secret pattern
\* of the redactor.
C25_OutboundRedacted ==
  log.status = "sent" =>
    \A i \in DOMAIN log.outbound :
      \A k \in DOMAIN LegacySecretPatterns :
        ~Test(LegacySecretPatterns[k], log.outbound[i])


\* C26: the failure events parse puts into the analysis of a log are in the
\* order of their appearance in the log, ascending lineNumber, also once the
\* primary failure has been selected.
C26_EventsByAppearance ==
  log.status \in {"parsed", "threw"} =>
    \A i, j \in DOMAIN log.analysis.failureEvents :
      i < j => log.analysis.failureEvents[i].lineNumber
                 < log.analysis.failureEvents[j].lineNumber

\* C27: when no rule matches any line of the log the run is aborted: the
\* parser's caller gets no analysis to go on with.
C27_NoMatchIsFatal ==
  (/\ log.status = "adapted"
   /\ Trim(JoinLines(log.raw)) # <<>>
   /\ \A i \in DOMAIN log.raw : FirstRule(log.raw[i], DEFAULT_RULES) = NoRule)
    => log.legacy = NoLegacyAnalysis

\* C28: the confidence score the scorer returns, before and after the context
\* boost, lies in [0,1] and equals itself rounded to two decimal places.
C28_ScoreInRangeAndRounded ==
  log.status \in {"scored", "boosted"} =>
    /\ DblCmp(log.scoring.metrics.score, DblZero) >= 0
    /\ DblCmp(log.scoring.metrics.score, DblOne) <= 0
    /\ RoundHundredths(log.scoring.metrics.score) = log.scoring.metrics.score

\* C29: for a log with the lines 'npm ERR! code E403' and '403 Forbidden' the
\* confidence score parse gets for the primary failure is at least 0.90.
C29_RegistryAuthConfidence ==
  (/\ log.status \in {"parsed", "threw"}
   /\ \E i \in DOMAIN log.raw : log.raw[i] = NpmErrLine
   /\ \E i \in DOMAIN log.raw : log.raw[i] = ForbiddenLine)
    => DblCmp(log.analysis.confidence.score, Thousandths(900)) >= 0


\* C30: a create step of a dry run whose target file exists has status error,
\* and the plan is unsuccessful.
C30_CreateNeedsAbsent ==
  run.component = "dry-run" =>
    \A i \in DOMAIN run.detail :
      (run.detail[i].action = "create" /\ fs[run.detail[i].file] # Absent)
        => (run.detail[i].status = "error" /\ ~run.ok)


\* C31: a dry run of an empty patch set, also with the options of the
\* applicator's pre-flight run, returns success with zero steps.
C31_EmptyDryRun ==
  (/\ run.component = "dry-run"
   /\ \A i \in DOMAIN run.detail :
        run.detail[i].action \notin {"create", "delete", "modify"})
    => (run.ok /\ run.detail = <<>>)


\* the journal operations that write an entry
JournalWrites == {"log", "logFailure", "logWarning"}

\* C32: after any sequence of log, logFailure and logWarning calls the logger
\* holds at most maxEntries entries in memory.
C32_BoundedRetention ==
  audit.last \in JournalWrites => Len(audit.entries) <= MaxEntries

\* C33: no log, logFailure or logWarning call changes or removes a line that
\* is already in the journal file: the file before the call is an initial
\* part of the file after it.
C33_AppendOnly ==
  [][audit'.last \in JournalWrites => IsPrefixOf(audit.file, audit'.file)]_vars

\* C40: after every journal operation the lines of the journal file and the
\* entries in memory are the same entries in the same order.
C40_FileMatchesMemory ==
  audit.last \in JournalWrites \cup {"construct", "clearOldLogs"}
    => audit.file = StringifyAll(audit.entries)


\* the types of all the error patterns the line matches
ErrorTypesOf(cleanLine) ==
  {ERROR_PATTERNS[k].type :
     k \in {j \in DOMAIN ERROR_PATTERNS : Test(ERROR_PATTERNS[j].pattern, cleanLine)}}

\* the first line of the processed log that matches an error pattern matches
\* the generic pattern /Error: (.*)/i and no other
FirstFailingIsGeneric(lines) ==
  \E i \in DOMAIN lines :
    /\ ErrorTypesOf(CleanLine(lines[i])) = {"general"}
    /\ \A j \in 1..(i - 1) : ErrorTypesOf(CleanLine(lines[j])) = {}

\* C34: when the first failing line of a log matches only the generic
\* 'Error: ...' pattern, LogParser.parse reports detectedErrorType 'general'.
C34_GenericErrorType ==
  (log.status \in {"sent", "threw"} /\ FirstFailingIsGeneric(LegacyProcess(log.raw)))
    => log.legacy.detectedErrorType = "general"


\* C35: for non-empty texts O and M, the patch generated from O to M, applied
\* to O, gives M: applyPatch(O, generatePatch(f, O, M)) = M.
C35_ApplyGeneratedPatch ==
  (/\ diff.status = "applied"
   /\ ~IsEmptyString(diff.original)
   /\ ~IsEmptyString(diff.modified))
    => diff.text = diff.modified


\* applyPatches has returned failure and nothing ran after it
ApplyFailed ==
  /\ pc["p1"] = "done"
  /\ result["p1"].op = "applyPatches"
  /\ ~result["p1"].success

\* C36: after applyPatches returns failure the working tree is the tree of
\* before the call: every file has the content, or the absence, it had.
C36_FailureLeavesTree ==
  ApplyFailed => fs = call["p1"].treeBefore

\* while the application runs, a file that no longer has the content it had
\* before the application has that content in the snapshots of the call
KeptOrSnapshotted(f) ==
  (pc["p1"] = "apply" /\ fs[f] # call["p1"].treeBefore[f])
    => (/\ f \in DOMAIN call["p1"].backups
        /\ call["p1"].backups[f] = call["p1"].treeBefore[f])

\* a file that is gone after a rollback was deleted by a delete patch of the
\* application
NotDeletedByRollback(f) ==
  (result["p1"].op = "rollback" /\ fs[f] = Absent)
    => \E id \in DOMAIN applicationRecords["p1"] :
         \E i \in DOMAIN applicationRecords["p1"][id].patches :
           /\ applicationRecords["p1"][id].patches[i].filename = f
           /\ applicationRecords["p1"][id].patches[i].patchContent.isDeletedFile

\* C37: the applicator never destroys file content it has not snapshotted:
\* a file that existed before the application is not overwritten, by a
\* create patch either, unless the call holds a snapshot of its content, and
\* a later rollback does not delete it.
C37_NoLossWithoutSnapshot ==
  \A f \in Files :
    call["p1"].treeBefore[f] # Absent
      => (KeptOrSnapshotted(f) /\ NotDeletedByRollback(f))


\* C38: at most one backend call is in flight at a time: no attempt starts
\* its call while the call of an earlier attempt, timed out or not, is still
\* running, and a call that ends after its timeout changes no result.
C38_OneCallInFlight ==
  /\ \A i \in DOMAIN retry.calls : retry.calls[i].running = {}
  /\ Cardinality(retry.pending) <= 1

\* reject < escalate < manual-review < auto-apply
Permissiveness(action) ==
  CASE action = "auto-apply" -> 3
    [] action = "manual-review" -> 2
    [] action = "escalate" -> 1
    [] OTHER -> 0

\* the action of the gate of this call for another score
ActionFor(score) ==
  EvaluateFix(gateIn.config, score, gateIn.validations, gateIn.patches,
              gateIn.isCriticalFailure).action

\* C39: with validations, patches, flags and thresholds fixed, whatever the
\* thresholds are, a higher score never gets a less permissive action.
C39_MonotoneInScore ==
  gateOut.action # "none"
    => \A score \in Scores :
         score >= gateIn.confidence
           => Permissiveness(ActionFor(score)) >= Permissiveness(gateOut.action)

\* a gate with auto-apply below manual-review escalated a score, and a higher
\* score gets auto-apply
C39_RaisedToAutoApply ==
  /\ gateOut.action = "escalate"
  /\ gateIn.config.autoApplyThreshold < gateIn.config.manualReviewThreshold
  /\ \E score \in Scores : score > gateIn.confidence /\ ActionFor(score) = "auto-apply"

====
